---- MODULE Spec2Model ----
(***************************************************************************)
(* The pfs apiServer (src/pfs/server/api_server.go): single-shard routing  *)
(* of GetFile / PutFile and the InitRepository fan-out, run by every node  *)
(* of a small cluster.  The sharder, the router, the driver and the remote *)
(* api client are the server's collaborators; their answers are drawn from *)
(* the cluster state (ownership, storage) or chosen by the environment     *)
(* (errors, transport failures, deadlines).                                *)
(***************************************************************************)
EXTENDS Integers, Sequences, FiniteSets, TLC

\* ------------------------------------------------------------------ bounds
NumNodes == 2
NumShards == 3
NumValues == 1
MaxHops == 2
ChunkSize == 2
MaxLen == 3
\* cmdutil: the longest argument given to ParseFile alone, the most arguments
\* given to ParseFiles, and the longest of these when there are several.
MaxArgLen == 5
MaxArgs == 2
ShortArgLen == 2

Nodes == 1..NumNodes
Shards == 0..(NumShards - 1)
\* Path 0 is the empty path; the paths 1 and NumShards+1 share shard 0.
Paths == 0..(NumShards + 1)
\* The values clients write; OldValue is what the files held before.
Values == 1..NumValues
OldValue == NumValues + 1
NoShard == -1
NoNode == 0
NoData == 0

VARIABLES
  master,   \* master[n]: the shards the router of node n reports as local master
  slave,    \* slave[n]: the shards the router of node n reports as local slave
  client,   \* client[n][s]: the node the api client GetAPIClient(s) of node n talks to
  inited,   \* inited[n]: the shards of node n's driver that hold the repository
  files,    \* the drivers' files: tuples <<node, shard, path, value>>
  frames,   \* the handler invocations, caller first (a second client call's
            \* invocation comes after the first's); a frame's src is what its
            \* open reader has left, its out the chunks it has sent to its caller
  log,      \* the collaborator calls made so far, in order
  nreq      \* client requests issued so far

vars == <<master, slave, client, inited, files, frames, log, nreq>>

\* ------------------------------------------------------------------ errors
Err(kind, shard) == [kind |-> kind, shard |-> shard]
Nil == Err("nil", NoShard)
RoutingError == Err("RoutingError", NoShard)
RouterError == Err("RouterError", NoShard)
Unavailable == Err("Unavailable", NoShard)
StreamError == Err("StreamError", NoShard)
CloseError == Err("CloseError", NoShard)
\* What a failing driver call on shard s returns: the driver's own error, which
\* may or may not name the shard it was called for.
StorageErrors(s) == {Err("StorageError", x) : x \in {NoShard, s}}

Result(err, data) == [err |-> err, data |-> data]
NoResult == Result(Nil, NoData)

\* ---------------------------------------------------------------- requests
Request(op, path, value) == [op |-> op, path |-> path, value |-> value]
Requests ==
  {Request("InitRepository", 0, NoData)}
    \cup {Request("GetFile", p, NoData) : p \in Paths}
    \cup {Request("PutFile", p, v) : p \in Paths, v \in Values}

Frame(n, req) ==
  [node |-> n, pc |-> "start", req |-> req, res |-> NoResult, call |-> NoResult,
   M |-> {}, S |-> {}, todo |-> {}, src |-> <<>>, out |-> <<>>]

\* One collaborator call: who made it (frame index d at node n), on which
\* shard, the boolean it answered (TRUE when it answers none), the error it
\* returned, and for a remote call the node called and the request sent.
Ev(kind, d, n, shard, ok, err, to, req) ==
  [kind |-> kind, depth |-> d, node |-> n, shard |-> shard, ok |-> ok,
   err |-> err, to |-> to, req |-> req]

\* ------------------------------------------------------------ collaborators
\* shard.Sharder.GetShard: the empty path maps to no shard (an error).
GetShard(path) == IF path = 0 THEN NoShard ELSE (path - 1) % NumShards

\* route.Router.IsLocalMasterShard on node n: the router's answer, or its error.
IsLocalMasterShard(n, s) ==
  {[ok |-> s \in master[n], err |-> Nil], [ok |-> FALSE, err |-> RouterError]}

\* route.Router.IsLocalSlaveShard on node n.
IsLocalSlaveShard(n, s) ==
  {[ok |-> s \in slave[n], err |-> Nil], [ok |-> FALSE, err |-> RouterError]}

\* route.Router.GetAPIClient on node n: a client for the node holding the
\* shard, or an error when that node cannot be reached.
GetAPIClient(n, s) ==
  {[to |-> client[n][s], err |-> Nil], [to |-> NoNode, err |-> Unavailable]}

\* drive.Driver.PutFile's effect on the files.
Write(fs, n, s, p, v) ==
  {t \in fs : ~(t[1] = n /\ t[2] = s /\ t[3] = p)} \cup {<<n, s, p, v>>}

\* drive.Driver.GetFile: the stored value of the path on that shard, if any.
Stored(n, s, p) == {t[4] : t \in {u \in files : u[1] = n /\ u[2] = s /\ u[3] = p}}

\* The bytes of a stored value: the value NumValues + n is the file of n
\* bytes, whose k-th byte is k (no two bytes of a file are equal); OldValue
\* is the file of one byte.  The values below are those PutFile writes; no
\* GetFile follows a PutFile, and they stand for the empty file.
Content(v) == [k \in 1..(v - NumValues) |-> k]

\* The bytes of a sequence of chunks, in order.
RECURSIVE Flatten(_)
Flatten(chunks) ==
  IF chunks = <<>> THEN <<>> ELSE Head(chunks) \o Flatten(Tail(chunks))

Min(a, b) == IF a < b THEN a ELSE b

\* api_server.go 87, 103: the bytes of putFileRequest.Value, which holds the
\* whole payload: the value v is a payload of ChunkSize + v bytes.
Payload(v) == [k \in 1..(ChunkSize + v) |-> k]

\* ------------------------------------------------------------------- Init
\* The nodes that hold the slave copies of a shard whose master is node m,
\* when every shard is replicated r times: the r nodes after m.
Replicas(m, r) == {((m - 1 + k) % NumNodes) + 1 : k \in 1..r}

\* Accurate ownership: every shard has one master, every router knows it, and
\* the shards are replicated on r < NumNodes other nodes, their slaves.  The
\* master of a shard holds a file for each of the paths 1..NumShards; the path
\* NumShards+1 has no file yet; no repository is initialised yet.
Init ==
  /\ \E owner \in [Shards -> Nodes], r \in 0..(NumNodes - 1) :
       /\ master = [n \in Nodes |-> {s \in Shards : owner[s] = n}]
       /\ slave = [n \in Nodes |-> {s \in Shards : n \in Replicas(owner[s], r)}]
       /\ client = [n \in Nodes |-> owner]
       /\ files = {<<owner[GetShard(p)], GetShard(p), p, OldValue>> : p \in 1..NumShards}
  /\ inited = [n \in Nodes |-> {}]
  /\ frames = <<>>
  /\ log = <<>>
  /\ nreq = 0

\* A client sends a request to any node.
ClientRequest(n, req) ==
  /\ nreq = 0
  /\ frames = <<>>
  /\ frames' = <<Frame(n, req)>>
  /\ log' = <<>>
  /\ nreq' = nreq + 1
  /\ UNCHANGED <<master, slave, client, inited, files>>

\* `return`: frame i ends with result r, having made the calls evs.
Finish(i, r, evs) ==
  /\ frames' = [frames EXCEPT ![i].pc = "done", ![i].res = r]
  /\ log' = log \o evs

\* --------------------------------------------------------- remote api client
\* The remote call's error dropped: an empty response is returned instead.
RemoteCallDropsError(i, kind, shard, to, req, evs) ==
  LET f == frames[i] IN
  \E delivered \in BOOLEAN :
    IF delivered /\ Len(frames) <= MaxHops
      THEN /\ frames' = Append([frames EXCEPT ![i].pc = "remote"], Frame(to, req))
           /\ log' = log \o evs \o <<Ev(kind, i, f.node, shard, TRUE, Nil, to, req)>>
      ELSE /\ frames' = [frames EXCEPT ![i].pc = "done",
                                       ![i].call = Result(Unavailable, NoData),
                                       ![i].res = Result(Nil, NoData)]
           /\ log' = log \o evs \o <<Ev(kind, i, f.node, shard, TRUE, Unavailable, to, req)>>

\* apiClient.<op>(ctx, request) on the client for node `to`: the request
\* reaches that node, whose handler then runs, or the transport fails.
RemoteCall(i, kind, shard, to, req, evs) ==
  LET f == frames[i] IN
  \E delivered \in BOOLEAN :
    IF delivered /\ Len(frames) <= MaxHops
      THEN /\ frames' = Append([frames EXCEPT ![i].pc = "remote"], Frame(to, req))
           /\ log' = log \o evs \o <<Ev(kind, i, f.node, shard, TRUE, Nil, to, req)>>
      ELSE /\ frames' = [frames EXCEPT ![i].pc = "done",
                                       ![i].call = Result(Unavailable, NoData),
                                       ![i].res = Result(Unavailable, NoData)]
           /\ log' = log \o evs \o <<Ev(kind, i, f.node, shard, TRUE, Unavailable, to, req)>>

\* ------------------------------------------------------------------ GetFile
\* api_server.go 75-78: the local read.  driver.GetFile fails, or returns a
\* reader of the stored file, which the handler then copies to its caller's
\* stream (GetFileWrite, GetFileWriteEnd).
GetFileLocal(i, shard, evs) ==
  LET f == frames[i] IN
  \E v \in Stored(f.node, shard, f.req.path) \cup {NoData},
     e \in {Nil} \cup StorageErrors(shard) :
    LET ev3 == Ev("driver.GetFile", i, f.node, shard, TRUE, e, NoNode, f.req) IN
    /\ (v = NoData) = (e # Nil)
    /\ IF e # Nil
         THEN Finish(i, Result(e, NoData), evs \o <<ev3>>)
         ELSE /\ frames' = [frames EXCEPT ![i].pc = "copy", ![i].src = Content(v)]
              /\ log' = log \o evs \o <<ev3>>

\* GetFile asking the router for the client of another shard.
GetFileRemoteWrongShard(i, shard, evs) ==
  LET f == frames[i]
      other == (shard + 1) % NumShards
  IN
  \E c \in GetAPIClient(f.node, other) :
    LET ev == Ev("GetAPIClient", i, f.node, other, TRUE, c.err, c.to, f.req) IN
    IF c.err # Nil
      THEN Finish(i, Result(c.err, NoData), evs \o <<ev>>)
      ELSE RemoteCall(i, "apiClient.GetFile", other, c.to, f.req, evs \o <<ev>>)

\* GetFile forwarding that answers with an empty stream and no error when the
\* router has no client for the shard.
GetFileRemoteSwallowsClientError(i, shard, evs) ==
  LET f == frames[i] IN
  \E c \in GetAPIClient(f.node, shard) :
    LET ev == Ev("GetAPIClient", i, f.node, shard, TRUE, c.err, c.to, f.req) IN
    IF c.err # Nil
      THEN Finish(i, NoResult, evs \o <<ev>>)
      ELSE RemoteCall(i, "apiClient.GetFile", shard, c.to, f.req, evs \o <<ev>>)

\* api_server.go 65-73: the forwarded read.
GetFileRemote(i, shard, evs) ==
  LET f == frames[i] IN
  \E c \in GetAPIClient(f.node, shard) :
    LET ev == Ev("GetAPIClient", i, f.node, shard, TRUE, c.err, c.to, f.req) IN
    IF c.err # Nil
      THEN Finish(i, Result(c.err, NoData), evs \o <<ev>>)
      ELSE RemoteCall(i, "apiClient.GetFile", shard, c.to, f.req, evs \o <<ev>>)

\* GetFile routing that reads from the node's own driver whatever the router
\* answered.
GetFileRoutedServesLocally(i, shard, evs) ==
  LET f == frames[i] IN
  \E a \in IsLocalMasterShard(f.node, shard) :
    LET ev == Ev("IsLocalMasterShard", i, f.node, shard, a.ok, a.err, NoNode, f.req) IN
    IF a.err # Nil
      THEN Finish(i, Result(a.err, NoData), evs \o <<ev>>)
      ELSE GetFileLocal(i, shard, evs \o <<ev>>)

\* api_server.go 60-84: the routing of GetFile, once the shard is known.
GetFileRouted(i, shard, evs) ==
  LET f == frames[i] IN
  \E a \in IsLocalMasterShard(f.node, shard) :
    LET ev == Ev("IsLocalMasterShard", i, f.node, shard, a.ok, a.err, NoNode, f.req) IN
    IF a.err # Nil
      THEN Finish(i, Result(a.err, NoData), evs \o <<ev>>)
      ELSE IF ~a.ok
        THEN GetFileRemote(i, shard, evs \o <<ev>>)
        ELSE GetFileLocal(i, shard, evs \o <<ev>>)

\* The call of sharder.GetShard, as logged (lines 56 and 88).
GetShardCall(i, shard) ==
  Ev("GetShard", i, frames[i].node, shard, TRUE,
     IF shard = NoShard THEN RoutingError ELSE Nil, NoNode, frames[i].req)

\* api_server.go 55-85.
GetFile(i) ==
  LET shard == GetShard(frames[i].req.path) IN
  /\ frames[i].pc = "start"
  /\ frames[i].req.op = "GetFile"
  /\ UNCHANGED <<master, slave, client, inited, files, nreq>>
  /\ IF shard = NoShard
       THEN Finish(i, Result(RoutingError, NoData), <<GetShardCall(i, shard)>>)
       ELSE GetFileRouted(i, shard, <<GetShardCall(i, shard)>>)

\* api_server.go 84, protoutil.WriteToStreamingBytesServer: one more chunk, of
\* at most ChunkSize bytes, is read from the reader and sent to the caller's
\* stream.
GetFileWrite(i) ==
  LET f == frames[i] IN
  /\ f.pc = "copy"
  /\ \E k \in 1..Min(ChunkSize, Len(f.src)) :
       /\ frames' = [frames EXCEPT ![i].out = Append(@, SubSeq(f.src, 1, k)),
                                   ![i].src = SubSeq(f.src, k + 1, Len(f.src))]
       /\ log' = Append(log, Ev("Send", i, f.node, GetShard(f.req.path), TRUE, Nil,
                                NoNode, f.req))
  /\ UNCHANGED <<master, slave, client, inited, files, nreq>>

\* GetFile returning the error of Close alone, whatever the copy returned.
GetFileWriteEndDropsCopyError(i) ==
  LET f == frames[i]
      shard == GetShard(f.req.path)
  IN
  /\ f.pc = "copy"
  /\ \E how \in {"eof", "read", "send"}, closeErr \in {Nil, CloseError} :
       LET copyErr == IF how = "eof" THEN Nil ELSE StreamError
           ev == Ev(IF how = "send" THEN "Send" ELSE "Read", i, f.node, shard, TRUE,
                    copyErr, NoNode, f.req)
           ev4 == Ev("Close", i, f.node, shard, TRUE, closeErr, NoNode, f.req)
       IN
       /\ how = "eof" => f.src = <<>>
       /\ how = "send" => f.src # <<>>
       /\ Finish(i, Result(closeErr, NoData), <<ev, ev4>>)
  /\ UNCHANGED <<master, slave, client, inited, files, nreq>>

\* GetFile returning after the copy without closing the reader when the copy
\* failed.
GetFileWriteEndLeaks(i) ==
  LET f == frames[i]
      shard == GetShard(f.req.path)
  IN
  /\ f.pc = "copy"
  /\ \E how \in {"eof", "read", "send"}, closeErr \in {Nil, CloseError} :
       LET copyErr == IF how = "eof" THEN Nil ELSE StreamError
           ev == Ev(IF how = "send" THEN "Send" ELSE "Read", i, f.node, shard, TRUE,
                    copyErr, NoNode, f.req)
           ev4 == Ev("Close", i, f.node, shard, TRUE, closeErr, NoNode, f.req)
       IN
       /\ how = "eof" => f.src = <<>>
       /\ how = "send" => f.src # <<>>
       /\ IF copyErr # Nil
            THEN closeErr = Nil /\ Finish(i, Result(copyErr, NoData), <<ev>>)
            ELSE Finish(i, Result(closeErr, NoData), <<ev, ev4>>)
  /\ UNCHANGED <<master, slave, client, inited, files, nreq>>

\* The end of the copy where the error of Close is returned whenever Close
\* failed, in place of the error of the copy.
GetFileWriteEndCloseWins(i) ==
  LET f == frames[i]
      shard == GetShard(f.req.path)
  IN
  /\ f.pc = "copy"
  /\ \E how \in {"eof", "read", "send"}, closeErr \in {Nil, CloseError} :
       LET copyErr == IF how = "eof" THEN Nil ELSE StreamError
           ev == Ev(IF how = "send" THEN "Send" ELSE "Read", i, f.node, shard, TRUE,
                    copyErr, NoNode, f.req)
           ev4 == Ev("Close", i, f.node, shard, TRUE, closeErr, NoNode, f.req)
       IN
       /\ how = "eof" => f.src = <<>>
       /\ how = "send" => f.src # <<>>
       /\ Finish(i, Result(IF closeErr # Nil THEN closeErr ELSE copyErr, NoData),
                 <<ev, ev4>>)
  /\ UNCHANGED <<master, slave, client, inited, files, nreq>>

\* api_server.go 79-84: the copy ends, because the reader is at its end, or
\* a read fails, or sending a chunk to the caller's stream fails; the
\* deferred Close runs, and its error is returned if the copy had none.
GetFileWriteEnd(i) ==
  LET f == frames[i]
      shard == GetShard(f.req.path)
  IN
  /\ f.pc = "copy"
  /\ \E how \in {"eof", "read", "send"}, closeErr \in {Nil, CloseError} :
       LET copyErr == IF how = "eof" THEN Nil ELSE StreamError
           ev == Ev(IF how = "send" THEN "Send" ELSE "Read", i, f.node, shard, TRUE,
                    copyErr, NoNode, f.req)
           ev4 == Ev("Close", i, f.node, shard, TRUE, closeErr, NoNode, f.req)
       IN
       /\ how = "eof" => f.src = <<>>
       /\ how = "send" => f.src # <<>>
       /\ Finish(i, Result(IF copyErr # Nil THEN copyErr ELSE closeErr, NoData),
                 <<ev, ev4>>)
  /\ UNCHANGED <<master, slave, client, inited, files, nreq>>

\* api_server.go 73, protoutil.RelayFromStreamingBytesClient: the next chunk
\* of the remote stream is received and sent to the caller's stream, or
\* sending it fails and the relay returns that error.
GetFileRelayChunk(i) ==
  /\ i < Len(frames)
  /\ frames[i].pc = "remote"
  /\ frames[i].req.op = "GetFile"
  /\ Len(frames[i].out) < Len(frames[i + 1].out)
  /\ \E sendErr \in {Nil, StreamError} :
       LET f == frames[i]
           chunk == frames[i + 1].out[Len(f.out) + 1]
           ev == Ev("Send", i, f.node, NoShard, TRUE, sendErr, NoNode, f.req)
       IN
       IF sendErr # Nil
         THEN Finish(i, Result(sendErr, NoData), <<ev>>)
         ELSE /\ frames' = [frames EXCEPT ![i].out = Append(@, chunk)]
              /\ log' = Append(log, ev)
  /\ UNCHANGED <<master, slave, client, inited, files, nreq>>

\* The relay returning when the called handler has returned, whatever is
\* left of the remote stream.
GetFileRelayTruncates(i) ==
  /\ i < Len(frames)
  /\ frames[i].pc = "remote"
  /\ frames[i].req.op = "GetFile"
  /\ frames[i + 1].pc = "done"
  /\ frames' = [frames EXCEPT ![i].pc = "done",
                              ![i].call = frames[i + 1].res,
                              ![i].res = frames[i + 1].res]
  /\ UNCHANGED <<master, slave, client, inited, files, log, nreq>>

\* api_server.go 73: the relay of the remote stream ends: every chunk was
\* relayed and the called handler has returned.  The relay returns what that
\* handler returned.
GetFileRelay(i) ==
  /\ i < Len(frames)
  /\ frames[i].pc = "remote"
  /\ frames[i].req.op = "GetFile"
  /\ frames[i + 1].pc = "done"
  /\ Len(frames[i].out) = Len(frames[i + 1].out)
  /\ frames' = [frames EXCEPT ![i].pc = "done",
                              ![i].call = frames[i + 1].res,
                              ![i].res = frames[i + 1].res]
  /\ UNCHANGED <<master, slave, client, inited, files, log, nreq>>

\* The relay going on to the end of the remote stream when the transport has
\* failed, and returning success.
GetFileRelayBreaksSilently(i) ==
  /\ frames[i].pc = "remote"
  /\ frames[i].req.op = "GetFile"
  /\ frames' = [frames EXCEPT ![i].pc = "done",
                              ![i].call = Result(Unavailable, NoData),
                              ![i].res = Result(Nil, NoData)]
  /\ UNCHANGED <<master, slave, client, inited, files, log, nreq>>

\* api_server.go 73: the transport of the remote stream fails while the relay
\* waits for the next chunk; the relay returns that error.  The called
\* node's handler runs on.
GetFileRelayBreaks(i) ==
  /\ frames[i].pc = "remote"
  /\ frames[i].req.op = "GetFile"
  /\ frames' = [frames EXCEPT ![i].pc = "done",
                              ![i].call = Result(Unavailable, NoData),
                              ![i].res = Result(Unavailable, NoData)]
  /\ UNCHANGED <<master, slave, client, inited, files, log, nreq>>

\* ------------------------------------------------------------------ PutFile
\* PutFile dropping the error of driver.PutFile.
PutFileLocalDropsError(i, shard, evs) ==
  LET f == frames[i] IN
  \E e \in {Nil} \cup StorageErrors(shard) :
    /\ files' = IF e = Nil
                  THEN Write(files, f.node, shard, f.req.path, f.req.value)
                  ELSE files
    /\ Finish(i, Result(Nil, NoData),
              evs \o <<Ev("driver.PutFile", i, f.node, shard, TRUE, e, NoNode, f.req)>>)

\* api_server.go 103-106: the local write.
PutFileLocal(i, shard, evs) ==
  LET f == frames[i] IN
  \E e \in {Nil} \cup StorageErrors(shard) :
    /\ files' = IF e = Nil
                  THEN Write(files, f.node, shard, f.req.path, f.req.value)
                  ELSE files
    /\ Finish(i, Result(e, NoData),
              evs \o <<Ev("driver.PutFile", i, f.node, shard, TRUE, e, NoNode, f.req)>>)

\* PutFile writing locally when no client for the shard can be had.
PutFileRemoteFallsBack(i, shard, evs) ==
  LET f == frames[i] IN
  \E c \in GetAPIClient(f.node, shard) :
    LET ev == Ev("GetAPIClient", i, f.node, shard, TRUE, c.err, c.to, f.req) IN
    IF c.err # Nil
      THEN PutFileLocal(i, shard, evs \o <<ev>>)
      ELSE /\ UNCHANGED files
           /\ RemoteCall(i, "apiClient.PutFile", shard, c.to, f.req, evs \o <<ev>>)

\* PutFile writing to its own driver as well before it forwards.
PutFileRemoteWriteThrough(i, shard, evs) ==
  LET f == frames[i]
      w == Ev("driver.PutFile", i, f.node, shard, TRUE, Nil, NoNode, f.req)
  IN
  /\ files' = Write(files, f.node, shard, f.req.path, f.req.value)
  /\ \E c \in GetAPIClient(f.node, shard) :
       LET ev == Ev("GetAPIClient", i, f.node, shard, TRUE, c.err, c.to, f.req) IN
       IF c.err # Nil
         THEN Finish(i, Result(c.err, NoData), evs \o <<w, ev>>)
         ELSE RemoteCall(i, "apiClient.PutFile", shard, c.to, f.req, evs \o <<w, ev>>)

\* api_server.go 97-101: the forwarded write.
PutFileRemote(i, shard, evs) ==
  LET f == frames[i] IN
  /\ UNCHANGED files
  /\ \E c \in GetAPIClient(f.node, shard) :
       LET ev == Ev("GetAPIClient", i, f.node, shard, TRUE, c.err, c.to, f.req) IN
       IF c.err # Nil
         THEN Finish(i, Result(c.err, NoData), evs \o <<ev>>)
         ELSE RemoteCall(i, "apiClient.PutFile", shard, c.to, f.req, evs \o <<ev>>)

\* PutFile routing by the answer the router gave to an earlier request of the
\* node for the shard, when there is one, instead of asking again.
PutFileRoutedCached(i, shard, evs) ==
  LET f == frames[i]
      prior == {j \in 1..Len(log) : /\ log[j].kind = "IsLocalMasterShard"
                                    /\ log[j].node = f.node
                                    /\ log[j].shard = shard
                                    /\ log[j].err = Nil}
  IN
  IF prior # {}
    THEN IF log[CHOOSE j \in prior : \A k \in prior : j <= k].ok
           THEN PutFileLocal(i, shard, evs)
           ELSE PutFileRemote(i, shard, evs)
    ELSE \E a \in IsLocalMasterShard(f.node, shard) :
           LET ev == Ev("IsLocalMasterShard", i, f.node, shard, a.ok, a.err, NoNode, f.req) IN
           IF a.err # Nil
             THEN Finish(i, Result(a.err, NoData), evs \o <<ev>>) /\ UNCHANGED files
             ELSE IF ~a.ok
               THEN PutFileRemote(i, shard, evs \o <<ev>>)
               ELSE PutFileLocal(i, shard, evs \o <<ev>>)

\* api_server.go 92-106: the routing of PutFile, once the shard is known.
PutFileRouted(i, shard, evs) ==
  LET f == frames[i] IN
  \E a \in IsLocalMasterShard(f.node, shard) :
    LET ev == Ev("IsLocalMasterShard", i, f.node, shard, a.ok, a.err, NoNode, f.req) IN
    IF a.err # Nil
      THEN Finish(i, Result(a.err, NoData), evs \o <<ev>>) /\ UNCHANGED files
      ELSE IF ~a.ok
        THEN PutFileRemote(i, shard, evs \o <<ev>>)
        ELSE PutFileLocal(i, shard, evs \o <<ev>>)

\* PutFile returning an empty response when the sharder fails.
PutFileIgnoresShardError(i) ==
  LET shard == GetShard(frames[i].req.path) IN
  /\ frames[i].pc = "start"
  /\ frames[i].req.op = "PutFile"
  /\ UNCHANGED <<master, slave, client, inited, nreq>>
  /\ IF shard = NoShard
       THEN /\ Finish(i, Result(Nil, NoData), <<GetShardCall(i, shard)>>)
            /\ UNCHANGED files
       ELSE PutFileRouted(i, shard, <<GetShardCall(i, shard)>>)

\* api_server.go 87-107.
PutFile(i) ==
  LET shard == GetShard(frames[i].req.path) IN
  /\ frames[i].pc = "start"
  /\ frames[i].req.op = "PutFile"
  /\ UNCHANGED <<master, slave, client, inited, nreq>>
  /\ IF shard = NoShard
       THEN /\ Finish(i, Result(RoutingError, NoData), <<GetShardCall(i, shard)>>)
            /\ UNCHANGED files
       ELSE PutFileRouted(i, shard, <<GetShardCall(i, shard)>>)

\* The deadline of ctx, which PutFile hands to apiClient.PutFile (line 101),
\* expires while the call is in flight: the call returns an error.  The
\* called node's handler runs on; driver.PutFile (line 103) takes no ctx.
Timeout(i) ==
  /\ frames[i].pc = "remote"
  /\ frames[i].req.op = "PutFile"
  /\ frames' = [frames EXCEPT ![i].pc = "done",
                              ![i].call = Result(Unavailable, NoData),
                              ![i].res = Result(Unavailable, NoData)]
  /\ UNCHANGED <<master, slave, client, inited, files, log, nreq>>

\* PutFile answering with an empty response whatever the remote call returned.
PutFileReturnSwallows(i) ==
  /\ i < Len(frames)
  /\ frames[i].pc = "remote"
  /\ frames[i].req.op = "PutFile"
  /\ frames[i + 1].pc = "done"
  /\ frames' = [frames EXCEPT ![i].pc = "done",
                              ![i].call = frames[i + 1].res,
                              ![i].res = Result(Nil, NoData)]
  /\ UNCHANGED <<master, slave, client, inited, files, log, nreq>>

\* The remote call of frame i returns what the called handler returned
\* (line 101: returned as is).
PutFileReturn(i) ==
  /\ i < Len(frames)
  /\ frames[i].pc = "remote"
  /\ frames[i].req.op = "PutFile"
  /\ frames[i + 1].pc = "done"
  /\ frames' = [frames EXCEPT ![i].pc = "done",
                              ![i].call = frames[i + 1].res,
                              ![i].res = frames[i + 1].res]
  /\ UNCHANGED <<master, slave, client, inited, files, log, nreq>>

\* ----------------------------------------------------------- InitRepository
\* The function value handed to getShards, on node n: the router's answer for
\* shard i, where `view` is the set the router reports and `failAt` the index
\* at which the router fails (NumShards: it never fails).
isShardFunc(view, failAt, i) ==
  [ok |-> i \in view /\ i # failAt, err |-> IF i = failAt THEN RouterError ELSE Nil]

\* api_server.go 157-166: the loop of getShards from index i on, m the map so
\* far, evs the queries made so far.
RECURSIVE getShardsLoop(_, _, _, _, _, _, _)
getShardsLoop(kind, d, view, failAt, i, m, evs) ==
  IF ~(i < NumShards)
    THEN [m |-> m, err |-> Nil, evs |-> evs]
    ELSE LET a == isShardFunc(view, failAt, i)
             ev == Ev(kind, d, frames[d].node, i, a.ok, a.err, NoNode, frames[d].req)
         IN
         IF a.err # Nil
           THEN [m |-> {}, err |-> a.err, evs |-> Append(evs, ev)]
           ELSE getShardsLoop(kind, d, view, failAt, i + 1,
                              IF a.ok THEN m \cup {i} ELSE m, Append(evs, ev))

\* getShards starting its loop at shard 1.
getShardsFromOne(kind, d, view, failAt) == getShardsLoop(kind, d, view, failAt, 1, {}, <<>>)

\* getShards putting every index in the map, whatever isShardFunc answered.
getShardsIgnoresAnswer(kind, d, view, failAt) ==
  LET r == getShardsLoop(kind, d, view, failAt, 0, {}, <<>>)
  IN [r EXCEPT !.m = IF r.err = Nil THEN Shards ELSE {}]

\* api_server.go 154-167.
getShards(kind, d, view, failAt) == getShardsLoop(kind, d, view, failAt, 0, {}, <<>>)

\* getMasterShards asking the router for the slave role.
getMasterShardsAsksSlave(d, failAt) ==
  getShards("IsLocalSlaveShard", d, slave[frames[d].node], failAt)

\* api_server.go 145-147.
getMasterShards(d, failAt) ==
  getShards("IsLocalMasterShard", d, master[frames[d].node], failAt)

\* api_server.go 149-151.
getSlaveShards(d, failAt) ==
  getShards("IsLocalSlaveShard", d, slave[frames[d].node], failAt)

\* InitRepository going on to the next shard when driver.InitRepository fails.
InitShardContinues(i, shard) ==
  LET f == frames[i] IN
  \E e \in {Nil} \cup StorageErrors(shard) :
    /\ inited' = IF e = Nil THEN [inited EXCEPT ![f.node] = @ \cup {shard}] ELSE inited
    /\ frames' = [frames EXCEPT ![i].todo = @ \ {shard}]
    /\ log' = Append(log, Ev("driver.InitRepository", i, f.node, shard, TRUE, e,
                             NoNode, f.req))

\* api_server.go 39 and 48: one driver.InitRepository call of frame i, for a
\* shard of the map being ranged over (Go ranges over a map in any order).
InitShard(i, shard) ==
  LET f == frames[i] IN
  \E e \in {Nil} \cup StorageErrors(shard) :
    LET ev == Ev("driver.InitRepository", i, f.node, shard, TRUE, e, NoNode, f.req) IN
    IF e # Nil
      THEN /\ Finish(i, Result(e, NoData), <<ev>>)
           /\ UNCHANGED inited
      ELSE /\ inited' = [inited EXCEPT ![f.node] = @ \cup {shard}]
           /\ frames' = [frames EXCEPT ![i].todo = @ \ {shard}]
           /\ log' = Append(log, ev)

\* InitRepository going on with an empty master set when getMasterShards fails.
InitRepositoryIgnoresQueryError(i) ==
  /\ frames[i].pc = "start"
  /\ frames[i].req.op = "InitRepository"
  /\ UNCHANGED <<master, slave, client, inited, files, nreq>>
  /\ \E failAt \in 0..NumShards :
       LET r == getMasterShards(i, failAt) IN
       /\ frames' = [frames EXCEPT ![i].pc = "masters", ![i].M = r.m, ![i].todo = r.m]
       /\ log' = log \o r.evs

\* api_server.go 33-37: the master shards are computed.
InitRepository(i) ==
  /\ frames[i].pc = "start"
  /\ frames[i].req.op = "InitRepository"
  /\ UNCHANGED <<master, slave, client, inited, files, nreq>>
  /\ \E failAt \in 0..NumShards :
       LET r == getMasterShards(i, failAt) IN
       IF r.err # Nil
         THEN Finish(i, Result(r.err, NoData), r.evs)
         ELSE /\ frames' = [frames EXCEPT ![i].pc = "masters", ![i].M = r.m,
                                          ![i].todo = r.m]
              /\ log' = log \o r.evs

\* The master loop undoing the master shards it initialised when
\* driver.InitRepository fails.
InitMasterShardRollsBack(i) ==
  /\ frames[i].pc = "masters"
  /\ UNCHANGED <<master, slave, client, files, nreq>>
  /\ \E shard \in frames[i].todo : \E e \in {Nil} \cup StorageErrors(shard) :
       LET f == frames[i]
           ev == Ev("driver.InitRepository", i, f.node, shard, TRUE, e, NoNode, f.req)
       IN
       IF e # Nil
         THEN /\ Finish(i, Result(e, NoData), <<ev>>)
              /\ inited' = [inited EXCEPT ![f.node] = @ \ f.M]
         ELSE /\ inited' = [inited EXCEPT ![f.node] = @ \cup {shard}]
              /\ frames' = [frames EXCEPT ![i].todo = @ \ {shard}]
              /\ log' = Append(log, ev)

\* api_server.go 38-42: the loop over the master shards.
InitMasterShard(i) ==
  /\ frames[i].pc = "masters"
  /\ UNCHANGED <<master, slave, client, files, nreq>>
  /\ \E shard \in frames[i].todo : InitShard(i, shard)

\* InitRepository leaving the master loop while master shards remain.
InitSlaveQueryEarly(i) ==
  /\ frames[i].pc = "masters"
  /\ UNCHANGED <<master, slave, client, inited, files, nreq>>
  /\ \E failAt \in 0..NumShards :
       LET r == getSlaveShards(i, failAt) IN
       IF r.err # Nil
         THEN Finish(i, Result(r.err, NoData), r.evs)
         ELSE /\ frames' = [frames EXCEPT ![i].pc = "slaves", ![i].S = r.m,
                                          ![i].todo = r.m]
              /\ log' = log \o r.evs

\* The slave query that, when the router fails, goes on with the slave shards
\* found before the failure.
InitSlaveQueryKeepsPartial(i) ==
  /\ frames[i].pc = "masters"
  /\ frames[i].todo = {}
  /\ UNCHANGED <<master, slave, client, inited, files, nreq>>
  /\ \E failAt \in 0..NumShards :
       LET r == getSlaveShards(i, failAt)
           part == {r.evs[k].shard : k \in {x \in 1..Len(r.evs) : r.evs[x].ok}}
           found == IF r.err # Nil THEN part ELSE r.m
       IN
       /\ frames' = [frames EXCEPT ![i].pc = "slaves", ![i].S = found,
                                   ![i].todo = found]
       /\ log' = log \o r.evs

\* api_server.go 43-46: the slave shards are computed, after the master loop.
InitSlaveQuery(i) ==
  /\ frames[i].pc = "masters"
  /\ frames[i].todo = {}
  /\ UNCHANGED <<master, slave, client, inited, files, nreq>>
  /\ \E failAt \in 0..NumShards :
       LET r == getSlaveShards(i, failAt) IN
       IF r.err # Nil
         THEN Finish(i, Result(r.err, NoData), r.evs)
         ELSE /\ frames' = [frames EXCEPT ![i].pc = "slaves", ![i].S = r.m,
                                          ![i].todo = r.m]
              /\ log' = log \o r.evs

\* The slave loop refusing a shard that already holds the repository.
InitSlaveShardRefusesInited(i) ==
  /\ frames[i].pc = "slaves"
  /\ UNCHANGED <<master, slave, client, files, nreq>>
  /\ \E shard \in frames[i].todo :
       IF shard \in inited[frames[i].node]
         THEN /\ Finish(i, Result(Err("StorageError", shard), NoData), <<>>)
              /\ UNCHANGED inited
         ELSE InitShard(i, shard)

\* api_server.go 47-51: the loop over the slave shards.
InitSlaveShard(i) ==
  /\ frames[i].pc = "slaves"
  /\ UNCHANGED <<master, slave, client, files, nreq>>
  /\ \E shard \in frames[i].todo : InitShard(i, shard)

\* api_server.go 52: both loops are over.
InitReturn(i) ==
  /\ frames[i].pc = "slaves"
  /\ frames[i].todo = {}
  /\ Finish(i, Result(Nil, NoData), <<>>)
  /\ UNCHANGED <<master, slave, client, inited, files, nreq>>

\* --------------------------------------------------------------------- Next
Next ==
  \/ \E n \in Nodes, req \in Requests : ClientRequest(n, req)
  \/ \E i \in 1..Len(frames) : GetFile(i)
  \/ \E i \in 1..Len(frames) : GetFileWrite(i)
  \/ \E i \in 1..Len(frames) : GetFileWriteEnd(i)
  \/ \E i \in 1..Len(frames) : GetFileRelayChunk(i)
  \/ \E i \in 1..Len(frames) : GetFileRelay(i)
  \/ \E i \in 1..Len(frames) : GetFileRelayBreaks(i)
  \/ \E i \in 1..Len(frames) : PutFile(i)
  \/ \E i \in 1..Len(frames) : Timeout(i)
  \/ \E i \in 1..Len(frames) : PutFileReturn(i)
  \/ \E i \in 1..Len(frames) : InitRepository(i)
  \/ \E i \in 1..Len(frames) : InitMasterShard(i)
  \/ \E i \in 1..Len(frames) : InitSlaveQuery(i)
  \/ \E i \in 1..Len(frames) : InitSlaveShard(i)
  \/ \E i \in 1..Len(frames) : InitReturn(i)

Spec == Init /\ [][Next]_vars

\* ------------------------------------------- InitRepository, called twice
\* A client calls InitRepository on a node.
InitRequest(n) == ClientRequest(n, Request("InitRepository", 0, NoData))

\* Once the first InitRepository call has returned, a client calls
\* InitRepository again, on the same node (a second execution, a retry) or
\* on another node of the cluster.  frames[1] keeps the first call and its
\* result, frames[2] is the second call; the ownership snapshot is the same.
SecondInit(n) ==
  /\ nreq = 1
  /\ Len(frames) = 1
  /\ frames[1].pc = "done"
  /\ frames[1].req.op = "InitRepository"
  /\ frames' = Append(frames, Frame(n, frames[1].req))
  /\ nreq' = 2
  /\ UNCHANGED <<master, slave, client, inited, files, log>>

NextRepeat ==
  \/ \E n \in Nodes : InitRequest(n)
  \/ \E n \in Nodes : SecondInit(n)
  \/ \E i \in 1..Len(frames) : InitRepository(i)
  \/ \E i \in 1..Len(frames) : InitMasterShard(i)
  \/ \E i \in 1..Len(frames) : InitSlaveQuery(i)
  \/ \E i \in 1..Len(frames) : InitSlaveShard(i)
  \/ \E i \in 1..Len(frames) : InitReturn(i)

SpecRepeat == Init /\ [][NextRepeat]_vars

\* The second call as SecondInit makes it, the call log starting afresh with
\* it: what is left of the first call is its frame and the storage.
Retry(n) ==
  /\ nreq = 1
  /\ Len(frames) = 1
  /\ frames[1].pc = "done"
  /\ frames[1].req.op = "InitRepository"
  /\ frames' = Append(frames, Frame(n, frames[1].req))
  /\ log' = <<>>
  /\ nreq' = 2
  /\ UNCHANGED <<master, slave, client, inited, files>>

NextRetry ==
  \/ \E n \in Nodes : InitRequest(n)
  \/ \E n \in Nodes : Retry(n)
  \/ \E i \in 1..Len(frames) : InitRepository(i)
  \/ \E i \in 1..Len(frames) : InitMasterShard(i)
  \/ \E i \in 1..Len(frames) : InitSlaveQuery(i)
  \/ \E i \in 1..Len(frames) : InitSlaveShard(i)
  \/ \E i \in 1..Len(frames) : InitReturn(i)

SpecRetry == Init /\ [][NextRetry]_vars

\* ------------------------------------------------------ GetFile, streaming
\* As Init, with one node the master of every shard and no slave copies (a
\* GetFile is served by the node called or forwarded to the master; it never
\* asks for slaves), the files being of any length up to MaxLen: none, one
\* byte, one chunk, several chunks.
InitStream ==
  /\ \E owner \in {[s \in Shards |-> m] : m \in Nodes},
        v \in NumValues..(NumValues + MaxLen) :
       /\ master = [n \in Nodes |-> {s \in Shards : owner[s] = n}]
       /\ slave = [n \in Nodes |-> {}]
       /\ client = [n \in Nodes |-> owner]
       /\ files = {<<owner[GetShard(p)], GetShard(p), p, v>> : p \in 1..NumShards}
  /\ inited = [n \in Nodes |-> {}]
  /\ frames = <<>>
  /\ log = <<>>
  /\ nreq = 0

\* A client calls GetFile on a node.
GetFileRequest(n, path) == ClientRequest(n, Request("GetFile", path, NoData))

NextStream ==
  \/ \E n \in Nodes, path \in Paths : GetFileRequest(n, path)
  \/ \E i \in 1..Len(frames) : GetFile(i)
  \/ \E i \in 1..Len(frames) : GetFileWrite(i)
  \/ \E i \in 1..Len(frames) : GetFileWriteEnd(i)
  \/ \E i \in 1..Len(frames) : GetFileRelayChunk(i)
  \/ \E i \in 1..Len(frames) : GetFileRelay(i)
  \/ \E i \in 1..Len(frames) : GetFileRelayBreaks(i)

SpecStream == InitStream /\ [][NextStream]_vars

\* ------------------------------------------------------ PullDiff, PushDiff
\* pfs.PullDiffRequest / pfs.PushDiffRequest: the shard, and for PushDiff
\* the diff pushed.
DiffRequest(op, shard, value) == [op |-> op, shard |-> shard, value |-> value]

\* A client calls PullDiff or PushDiff on a node.
DiffCall(n, op, shard, value) == ClientRequest(n, DiffRequest(op, shard, value))

\* api_server.go 129-131: PullDiff returns nil; it calls no collaborator and
\* sends nothing on its caller's stream.
PullDiff(i) ==
  /\ frames[i].pc = "start"
  /\ frames[i].req.op = "PullDiff"
  /\ Finish(i, Result(Nil, NoData), <<>>)
  /\ UNCHANGED <<master, slave, client, inited, files, nreq>>

\* api_server.go 133-135: PushDiff returns an empty response and a nil error;
\* it calls no collaborator.
PushDiff(i) ==
  /\ frames[i].pc = "start"
  /\ frames[i].req.op = "PushDiff"
  /\ Finish(i, Result(Nil, NoData), <<>>)
  /\ UNCHANGED <<master, slave, client, inited, files, nreq>>

NextDiff ==
  \/ \E n \in Nodes, shard \in Shards : DiffCall(n, "PullDiff", shard, NoData)
  \/ \E n \in Nodes, shard \in Shards, v \in Values : DiffCall(n, "PushDiff", shard, v)
  \/ \E i \in 1..Len(frames) : PullDiff(i)
  \/ \E i \in 1..Len(frames) : PushDiff(i)

SpecDiff == Init /\ [][NextDiff]_vars

\* ---------------------------------------------------- PutFile, role changes
\* newAPIServer on every node of a cluster where one node is the master of
\* every shard, which every router knows, and no node holds a slave copy
\* (GetFile and PutFile never ask for slaves).
InitRoles ==
  /\ \E owner \in {[s \in Shards |-> m] : m \in Nodes} :
       /\ master = [n \in Nodes |-> {s \in Shards : owner[s] = n}]
       /\ slave = [n \in Nodes |-> {}]
       /\ client = [n \in Nodes |-> owner]
       /\ files = {<<owner[GetShard(p)], GetShard(p), p, OldValue>> : p \in 1..NumShards}
  /\ inited = [n \in Nodes |-> {}]
  /\ frames = <<>>
  /\ log = <<>>
  /\ nreq = 0

\* The requests of GetFile and PutFile.
FileRequests ==
  {Request("GetFile", path, NoData) : path \in Paths}
    \cup {Request("PutFile", path, v) : path \in Paths, v \in Values}

\* The routing of the request that has returned: the calls by which the node
\* called by the client chose between its driver and another node, kept as
\* the calls of an earlier request (depth 0), with what the routers have
\* learnt.
Earlier(l) ==
  LET sel == SelectSeq(l, LAMBDA e :
               /\ e.depth <= 1
               /\ e.kind \in {"GetShard", "IsLocalMasterShard", "GetAPIClient",
                              "apiClient.GetFile", "apiClient.PutFile",
                              "driver.GetFile", "driver.PutFile", "RouterUpdate"})
  IN [j \in 1..Len(sel) |-> [sel[j] EXCEPT !.depth = 0]]

\* route.Router: node m becomes the master of the shard, and every router
\* learns it: it reports the shard as local master on m only, and hands out
\* clients for m.  This happens between two requests, once.
RoleChange(shard, m) ==
  /\ nreq = 1
  /\ \A d \in 1..Len(frames) : frames[d].pc = "done"
  /\ \A j \in 1..Len(log) : log[j].kind # "RouterUpdate"
  /\ \E n \in Nodes : client[n][shard] # m
  /\ master' = [n \in Nodes |-> IF n = m THEN master[n] \cup {shard}
                                         ELSE master[n] \ {shard}]
  /\ slave' = [slave EXCEPT ![m] = @ \ {shard}]
  /\ client' = [n \in Nodes |-> [client[n] EXCEPT ![shard] = m]]
  /\ log' = log \o [n \in 1..NumNodes |->
                      Ev("RouterUpdate", 0, n, shard, TRUE, Nil, m,
                         Request("RouterUpdate", 0, NoData))]
  /\ UNCHANGED <<inited, files, frames, nreq>>

\* Once its first request has returned and the nodes are idle, the client
\* calls the same node again, with any request for a path of the same shard.
SecondRequest(req) ==
  /\ nreq = 1
  /\ frames # <<>>
  /\ GetShard(req.path) = GetShard(frames[1].req.path)
  /\ \A d \in 1..Len(frames) : frames[d].pc = "done"
  /\ frames' = <<Frame(frames[1].node, req)>>
  /\ log' = Earlier(log)
  /\ nreq' = 2
  /\ UNCHANGED <<master, slave, client, inited, files>>

NextRoles ==
  \/ \E n \in Nodes, req \in FileRequests : ClientRequest(n, req)
  \/ \E shard \in Shards, m \in Nodes : RoleChange(shard, m)
  \/ \E req \in FileRequests : SecondRequest(req)
  \/ \E i \in 1..Len(frames) : GetFile(i)
  \/ \E i \in 1..Len(frames) : GetFileWrite(i)
  \/ \E i \in 1..Len(frames) : GetFileWriteEnd(i)
  \/ \E i \in 1..Len(frames) : GetFileRelayChunk(i)
  \/ \E i \in 1..Len(frames) : GetFileRelay(i)
  \/ \E i \in 1..Len(frames) : GetFileRelayBreaks(i)
  \/ \E i \in 1..Len(frames) : PutFile(i)
  \/ \E i \in 1..Len(frames) : Timeout(i)
  \/ \E i \in 1..Len(frames) : PutFileReturn(i)

SpecRoles == InitRoles /\ [][NextRoles]_vars

\* ------------------------------------- InitRepository, roles changing in flight
\* route.Router: while a request is in progress, node n, a slave of the
\* shard, is promoted to its master, and the master takes its place as a
\* slave; every router learns it.  Each of the two nodes holds the shard
\* before and after.  This happens once.
Promote(n, shard) ==
  /\ frames # <<>>
  /\ \A j \in 1..Len(log) : log[j].kind # "Promote"
  /\ shard \in slave[n]
  /\ \E m \in Nodes :
       /\ shard \in master[m]
       /\ master' = [master EXCEPT ![m] = @ \ {shard}, ![n] = @ \cup {shard}]
       /\ slave' = [slave EXCEPT ![m] = @ \cup {shard}, ![n] = @ \ {shard}]
       /\ log' = Append(log, Ev("Promote", 0, n, shard, TRUE, Nil, m,
                                Request("Promote", 0, NoData)))
  /\ client' = [k \in Nodes |-> [client[k] EXCEPT ![shard] = n]]
  /\ UNCHANGED <<inited, files, frames, nreq>>

NextPromote ==
  \/ \E n \in Nodes : InitRequest(n)
  \/ \E n \in Nodes, shard \in Shards : Promote(n, shard)
  \/ \E i \in 1..Len(frames) : InitRepository(i)
  \/ \E i \in 1..Len(frames) : InitMasterShard(i)
  \/ \E i \in 1..Len(frames) : InitSlaveQuery(i)
  \/ \E i \in 1..Len(frames) : InitSlaveShard(i)
  \/ \E i \in 1..Len(frames) : InitReturn(i)

SpecPromote == Init /\ [][NextPromote]_vars

\* ------------------------------------ GetFile and PutFile, views disagreeing
\* route.Router: the router of node n learns that node m is now the master
\* of the shard: it reports the shard as local master on m only, and hands
\* out clients for m.  Every router learns of the change by itself, at its
\* own time, while a request is in flight or not: until all have, the views
\* of the nodes disagree.  One shard changes its master in a behaviour.
RouterUpdate(n, shard, m) ==
  /\ frames # <<>>
  /\ \A j \in 1..Len(log) :
       log[j].kind = "RouterUpdate" =>
         log[j].node # n /\ log[j].shard = shard /\ log[j].to = m
  /\ client[n][shard] # m
  /\ master' = [master EXCEPT ![n] = IF n = m THEN @ \cup {shard} ELSE @ \ {shard}]
  /\ slave' = [slave EXCEPT ![n] = IF n = m THEN @ \ {shard} ELSE @]
  /\ client' = [client EXCEPT ![n][shard] = m]
  /\ log' = Append(log, Ev("RouterUpdate", 0, n, shard, TRUE, Nil, m,
                           Request("RouterUpdate", 0, NoData)))
  /\ UNCHANGED <<inited, files, frames, nreq>>

NextViews ==
  \/ \E n \in Nodes, req \in FileRequests : ClientRequest(n, req)
  \/ \E n \in Nodes, shard \in Shards, m \in Nodes : RouterUpdate(n, shard, m)
  \/ \E i \in 1..Len(frames) : GetFile(i)
  \/ \E i \in 1..Len(frames) : GetFileWrite(i)
  \/ \E i \in 1..Len(frames) : GetFileWriteEnd(i)
  \/ \E i \in 1..Len(frames) : GetFileRelayChunk(i)
  \/ \E i \in 1..Len(frames) : GetFileRelay(i)
  \/ \E i \in 1..Len(frames) : GetFileRelayBreaks(i)
  \/ \E i \in 1..Len(frames) : PutFile(i)
  \/ \E i \in 1..Len(frames) : Timeout(i)
  \/ \E i \in 1..Len(frames) : PutFileReturn(i)

SpecViews == InitRoles /\ [][NextViews]_vars

\* ------------------------------------------- GetFile and PutFile, cancelled
\* The client cancels its request, or the deadline of the request passes,
\* while the node it called is serving it.
Cancel ==
  /\ frames # <<>>
  /\ frames[1].pc # "done"
  /\ \A j \in 1..Len(log) : log[j].kind # "Cancel"
  /\ log' = Append(log, Ev("Cancel", 0, frames[1].node, NoShard, TRUE, Nil, NoNode,
                           frames[1].req))
  /\ UNCHANGED <<master, slave, client, inited, files, frames, nreq>>

\* Whether the context of the handler of frame d is cancelled: that of the
\* node the client called is the client's; PutFile hands its ctx on to the
\* node it calls (line 101); GetFile calls with context.Background()
\* (line 69), which is never cancelled.
CtxCancelled(d) ==
  /\ \E j \in 1..Len(log) : log[j].kind = "Cancel"
  /\ d = 1 \/ frames[d].req.op = "PutFile"

\* apiGetFileServer.Send succeeds only while the stream's context is live.
GetFileWriteLive(i) == ~CtxCancelled(i) /\ GetFileWrite(i)

\* The relay of a chunk: once the stream's context is cancelled, the Send
\* fails and the relay returns.
GetFileRelayChunkLive(i) ==
  /\ GetFileRelayChunk(i)
  /\ CtxCancelled(i) => frames'[i].pc = "done"

\* apiClient.PutFile(ctx, ...) returns once ctx is cancelled.
PutFileCancelled(i) == CtxCancelled(i) /\ Timeout(i)

NextCancel ==
  \/ \E n \in Nodes, req \in FileRequests : ClientRequest(n, req)
  \/ Cancel
  \/ \E i \in 1..Len(frames) : GetFile(i)
  \/ \E i \in 1..Len(frames) : GetFileWriteLive(i)
  \/ \E i \in 1..Len(frames) : GetFileWriteEnd(i)
  \/ \E i \in 1..Len(frames) : GetFileRelayChunkLive(i)
  \/ \E i \in 1..Len(frames) : GetFileRelay(i)
  \/ \E i \in 1..Len(frames) : GetFileRelayBreaks(i)
  \/ \E i \in 1..Len(frames) : PutFile(i)
  \/ \E i \in 1..Len(frames) : PutFileCancelled(i)
  \/ \E i \in 1..Len(frames) : PutFileReturn(i)

SpecCancel == Init /\ [][NextCancel]_vars

\* ------------------------------------------------- cmdutil: ParseFile(s)
\* Arguments are strings over a letter and the two separators, as sequences
\* of characters.
Chars == {"r", "@", ":"}
Strings(n) == UNION {[1..k -> Chars] : k \in 0..n}

\* strings.Index: the position of the first c in s, 0 when there is none.
Index(s, c) ==
  IF \E i \in 1..Len(s) : s[i] = c
    THEN CHOOSE i \in 1..Len(s) : s[i] = c /\ \A j \in 1..(i - 1) : s[j] # c
    ELSE 0

\* strings.SplitN(s, c, 2): s alone when c is not in it, else what precedes
\* the first c and what follows it.
SplitN2(s, c) ==
  LET i == Index(s, c) IN
  IF i = 0 THEN <<s>> ELSE <<SubSeq(s, 1, i - 1), SubSeq(s, i + 1, Len(s))>>

\* pfs.File{Commit: {Repo: {Name: repo}, ID: id}, Path: path}, the nil file,
\* and the error fmt.Errorf makes, which quotes the argument.
File(repo, id, path) == [repo |-> repo, id |-> id, path |-> path]
NoFile == File(<<>>, <<>>, <<>>)
ParseError(what, arg) == [kind |-> what, arg |-> arg]

\* ParseFile that takes an empty commit as no commit.
ParseFileAllowsEmptyCommit(arg) ==
  LET repoAndRest == SplitN2(arg, "@") IN
  IF repoAndRest[1] = <<>>
    THEN [file |-> NoFile, err |-> ParseError("repo cannot be empty", arg)]
    ELSE IF Len(repoAndRest) > 1
      THEN LET commitAndPath == SplitN2(repoAndRest[2], ":") IN
           [file |-> File(repoAndRest[1], commitAndPath[1],
                          IF Len(commitAndPath) > 1 THEN commitAndPath[2] ELSE <<>>),
            err |-> Nil]
      ELSE [file |-> File(repoAndRest[1], <<>>, <<>>), err |-> Nil]

\* part_000 117-144.
ParseFile(arg) ==
  LET repoAndRest == SplitN2(arg, "@") IN
  IF repoAndRest[1] = <<>>
    THEN [file |-> NoFile, err |-> ParseError("repo cannot be empty", arg)]
    ELSE IF Len(repoAndRest) > 1
      THEN LET commitAndPath == SplitN2(repoAndRest[2], ":") IN
           IF commitAndPath[1] = <<>>
             THEN [file |-> NoFile, err |-> ParseError("commit cannot be empty", arg)]
             ELSE [file |-> File(repoAndRest[1], commitAndPath[1],
                                 IF Len(commitAndPath) > 1 THEN commitAndPath[2] ELSE <<>>),
                   err |-> Nil]
      ELSE [file |-> File(repoAndRest[1], <<>>, <<>>), err |-> Nil]

\* The command-line helpers run in the client, with no cluster.
InitCmdutil ==
  /\ master = [n \in Nodes |-> {}]
  /\ slave = [n \in Nodes |-> {}]
  /\ client = [n \in Nodes |-> [s \in Shards |-> n]]
  /\ inited = [n \in Nodes |-> {}]
  /\ files = {}
  /\ frames = <<>>
  /\ log = <<>>
  /\ nreq = 0

\* The argument lists given to ParseFiles: one argument of any form, or
\* several short ones.
ArgLists ==
  {<<a>> : a \in Strings(MaxArgLen)}
    \cup UNION {[1..k -> Strings(ShortArgLen)] : k \in 0..MaxArgs}

\* A call of ParseFiles: `var results []*pfs.File` (line 147).
ParseFilesCall ==
  /\ nreq = 0
  /\ frames = <<>>
  /\ \E args \in ArgLists :
       frames' = <<[pc |-> "loop", req |-> [op |-> "ParseFiles", args |-> args],
                    i |-> 1, results |-> <<>>, res |-> Result(Nil, <<>>)]>>
  /\ nreq' = 1
  /\ UNCHANGED <<master, slave, client, inited, files, log>>

\* part_000 148-154: one turn of the loop of ParseFiles; the argument is
\* parsed, and its file appended, or its error returned with nil.
ParseFilesLoop(d) ==
  /\ frames[d].req.op = "ParseFiles"
  /\ frames[d].pc = "loop"
  /\ frames[d].i <= Len(frames[d].req.args)
  /\ LET r == ParseFile(frames[d].req.args[frames[d].i]) IN
     frames' = IF r.err # Nil
                 THEN [frames EXCEPT ![d].pc = "done", ![d].res = Result(r.err, <<>>)]
                 ELSE [frames EXCEPT ![d].i = @ + 1,
                                     ![d].results = Append(@, r.file)]
  /\ UNCHANGED <<master, slave, client, inited, files, log, nreq>>

\* part_000 156: return results, nil.
ParseFilesReturn(d) ==
  /\ frames[d].req.op = "ParseFiles"
  /\ frames[d].pc = "loop"
  /\ frames[d].i > Len(frames[d].req.args)
  /\ frames' = [frames EXCEPT ![d].pc = "done",
                              ![d].res = Result(Nil, frames[d].results)]
  /\ UNCHANGED <<master, slave, client, inited, files, log, nreq>>

NextParse ==
  \/ ParseFilesCall
  \/ \E d \in 1..Len(frames) : ParseFilesLoop(d)
  \/ \E d \in 1..Len(frames) : ParseFilesReturn(d)

SpecParse == InitCmdutil /\ [][NextParse]_vars

\* ------------------------------------------------ cmdutil: CreateAliases
\* Invocations and usage strings are strings over a letter, a bracket and
\* the space.
WordChars == {"a", "[", " "}
Invocations(n) == UNION {[1..k -> WordChars] : k \in 0..n}

\* strings.Split(s, " "): the pieces of s between its spaces, empty ones
\* included.
RECURSIVE Split(_)
Split(s) ==
  LET i == Index(s, " ") IN
  IF i = 0 THEN <<s>> ELSE <<SubSeq(s, 1, i - 1)>> \o Split(SubSeq(s, i + 1, Len(s)))

\* cobra.Command.Name: what precedes the first space of Use.
Name(use) == SplitN2(use, " ")[1]

\* A cobra.Command: its Use, whether it has a Run, and its child commands
\* (positions in the chain being built).
Command(use, run, children) == [Use |-> use, Run |-> run, children |-> children]

\* The commands given to CreateAliases: with or without usage arguments in
\* Use, with a Run or (a docs command) without one, and no child command.
Cmds == {Command(use, run, {}) : use \in {<<>>, <<"[", "a">>}, run \in BOOLEAN}

\* The lists of invocations given to CreateAliases: one invocation of any
\* form, or several short ones.
InvocationLists ==
  {<<v>> : v \in Invocations(MaxArgLen)}
    \cup UNION {[1..k -> Invocations(ShortArgLen)] : k \in 0..MaxArgs}

\* A call of CreateAliases (part_000 236-237).
CreateAliasesCall ==
  /\ nreq = 0
  /\ frames = <<>>
  /\ \E cmd \in Cmds, invocations \in InvocationLists :
       frames' = <<[pc |-> "loop",
                    req |-> [op |-> "CreateAliases", cmd |-> cmd,
                             invocations |-> invocations],
                    k |-> 1, i |-> 1, nodes |-> <<>>,
                    res |-> Result(Nil, <<>>)]>>
  /\ nreq' = 1
  /\ UNCHANGED <<master, slave, client, inited, files, log>>

\* Every command of the chain made as the leaf is.
AliasCommandCopiesCmd(cmd, args, i) ==
  [cmd EXCEPT !.Use = IF cmd.Use = <<>> THEN args[i]
                                         ELSE args[i] \o <<" ">> \o cmd.Use]

\* The command made for the i-th word of args: the leaf is a copy of cmd with
\* the word put before its Use, the others have the word as Use and nothing
\* else (part_000 245-258).
AliasCommand(cmd, args, i) ==
  IF i = Len(args)
    THEN [cmd EXCEPT !.Use = IF cmd.Use = <<>> THEN args[i]
                                               ELSE args[i] \o <<" ">> \o cmd.Use]
    ELSE Command(args[i], FALSE, {})

\* part_000 244-266: one turn of the inner loop; cur is made and, when it is
\* not the root, added to prev, the command made before it.
AliasNode(d) ==
  LET f == frames[d] IN
  /\ f.req.op = "CreateAliases"
  /\ f.pc = "loop"
  /\ f.k <= Len(f.req.invocations)
  /\ LET args == Split(f.req.invocations[f.k])
         cur == AliasCommand(f.req.cmd, args, f.i)
         linked == IF f.nodes = <<>>
                     THEN f.nodes
                     ELSE [f.nodes EXCEPT ![Len(f.nodes)].children = @ \cup {f.i}]
     IN
     /\ f.i <= Len(args)
     /\ frames' = [frames EXCEPT ![d].nodes = Append(linked, cur), ![d].i = f.i + 1]
  /\ UNCHANGED <<master, slave, client, inited, files, log, nreq>>

\* part_000 268: aliases = append(aliases, root), and the next invocation.
AliasAppend(d) ==
  LET f == frames[d] IN
  /\ f.req.op = "CreateAliases"
  /\ f.pc = "loop"
  /\ f.k <= Len(f.req.invocations)
  /\ f.i > Len(Split(f.req.invocations[f.k]))
  /\ frames' = [frames EXCEPT ![d].res = Result(Nil, Append(f.res.data, f.nodes)),
                              ![d].nodes = <<>>, ![d].i = 1, ![d].k = f.k + 1]
  /\ UNCHANGED <<master, slave, client, inited, files, log, nreq>>

\* part_000 271: return aliases.
AliasReturn(d) ==
  /\ frames[d].req.op = "CreateAliases"
  /\ frames[d].pc = "loop"
  /\ frames[d].k > Len(frames[d].req.invocations)
  /\ frames' = [frames EXCEPT ![d].pc = "done"]
  /\ UNCHANGED <<master, slave, client, inited, files, log, nreq>>

NextAliases ==
  \/ CreateAliasesCall
  \/ \E d \in 1..Len(frames) : AliasNode(d)
  \/ \E d \in 1..Len(frames) : AliasAppend(d)
  \/ \E d \in 1..Len(frames) : AliasReturn(d)

SpecAliases == InitCmdutil /\ [][NextAliases]_vars

\* ------------------------------------------------------------- the call log
\* The calls of the given kinds that frame d made.
Calls(d, kinds) == {j \in 1..Len(log) : log[j].depth = d /\ log[j].kind \in kinds}

Routed(d) == frames[d].req.op \in {"GetFile", "PutFile"} /\ frames[d].pc # "start"
DriverOp(d) == IF frames[d].req.op = "GetFile" THEN "driver.GetFile" ELSE "driver.PutFile"
ClientOp(d) == IF frames[d].req.op = "GetFile" THEN "apiClient.GetFile" ELSE "apiClient.PutFile"
StorageCalls == {"driver.GetFile", "driver.PutFile", "driver.InitRepository", "Close"}
RemoteCalls == {"GetAPIClient", "apiClient.GetFile", "apiClient.PutFile"}
\* What IsLocalMasterShard answered to frame d for the shard of its path.
Answered(d, ok) ==
  \E j \in Calls(d, {"IsLocalMasterShard"}) :
    /\ log[j].err = Nil
    /\ log[j].ok = ok
    /\ log[j].shard = GetShard(frames[d].req.path)
\* Every node's router reports the one master of every shard.
Accurate ==
  \A s \in Shards : \E m \in Nodes :
    /\ \A n \in Nodes : (s \in master[n]) = (n = m)
    /\ \A n \in Nodes : client[n][s] = m

\* ------------------------------------------------------------------- claims
\* C1: in GetFile and PutFile, when IsLocalMasterShard answers true for the
\* shard of the path, the node makes exactly one call of the matching driver
\* operation, on that shard, and no GetAPIClient query and no remote call;
\* and it calls the driver in no other case.
C1_LocalOnlyWhenMaster ==
  \A d \in 1..Len(frames) :
    Routed(d) =>
      /\ Answered(d, TRUE) =>
           /\ Cardinality(Calls(d, {DriverOp(d)})) = 1
           /\ \A j \in Calls(d, StorageCalls) :
                /\ log[j].kind \in {DriverOp(d), "Close"}
                /\ log[j].shard = GetShard(frames[d].req.path)
                /\ log[j].node = frames[d].node
           /\ Calls(d, RemoteCalls) = {}
      /\ Calls(d, StorageCalls) # {} => Answered(d, TRUE)

C1_Witness ==
  \E d \in 1..Len(frames) :
    /\ Routed(d)
    /\ Answered(d, TRUE)
    /\ \E j \in Calls(d, {"driver.PutFile"}) : log[j].err = Nil

\* C2: in GetFile and PutFile, when IsLocalMasterShard answers false and
\* GetAPIClient returns a client, the node queries GetAPIClient once, for the
\* shard of the path, makes exactly one remote call, of the same operation,
\* on that client, with the request it received, never calls its driver, and
\* returns what the remote call returned (for GetFile: unless sending to its
\* own caller failed).
C2_ForwardOnceVerbatim ==
  \A d \in 1..Len(frames) :
    (Routed(d) /\ Answered(d, FALSE)) =>
      /\ Calls(d, StorageCalls) = {}
      /\ Cardinality(Calls(d, {"GetAPIClient"})) = 1
      /\ \A g \in Calls(d, {"GetAPIClient"}) :
           /\ log[g].shard = GetShard(frames[d].req.path)
           /\ log[g].err = Nil =>
                /\ Cardinality(Calls(d, {"apiClient.GetFile", "apiClient.PutFile"})) = 1
                /\ \A j \in Calls(d, {"apiClient.GetFile", "apiClient.PutFile"}) :
                     /\ log[j].kind = ClientOp(d)
                     /\ log[j].to = log[g].to
                     /\ log[j].req = frames[d].req
                     /\ log[j].err = Nil =>
                          /\ d < Len(frames)
                          /\ frames[d + 1].node = log[g].to
                          /\ frames[d + 1].req = frames[d].req
                /\ (/\ frames[d].pc = "done"
                    /\ \A j \in Calls(d, {"Send"}) : log[j].err = Nil) =>
                     /\ frames[d].call \in
                          {Result(Unavailable, NoData)} \cup
                            {frames[e].res : e \in {d + 1} \cap 1..Len(frames)}
                     /\ frames[d].res = frames[d].call

C2_Witness ==
  \E d \in 1..Len(frames) :
    /\ Routed(d)
    /\ Answered(d, FALSE)
    /\ frames[d].pc = "done"
    /\ d < Len(frames)
    /\ frames[d].res = frames[d + 1].res
    /\ frames[d].res.err # Nil

\* C3: with accurate ownership, when a client's PutFile has succeeded, exactly
\* one driver.PutFile call was made in the whole cluster; it succeeded, on
\* the node that is master of the path's shard, for that shard, and that
\* node's files hold the value.
C3_OneMutationAtMaster ==
  (/\ Accurate
   /\ Len(frames) >= 1
   /\ frames[1].req.op = "PutFile"
   /\ frames[1].pc = "done"
   /\ frames[1].res.err = Nil) =>
    LET req == frames[1].req
        W == {j \in 1..Len(log) : log[j].kind = "driver.PutFile"}
    IN
    /\ Cardinality(W) = 1
    /\ \A j \in W :
         /\ log[j].err = Nil
         /\ log[j].shard = GetShard(req.path)
         /\ log[j].shard \in master[log[j].node]
         /\ <<log[j].node, log[j].shard, req.path, req.value>> \in files
    /\ \A t \in files : (t[3] = req.path /\ t[4] = req.value) => t[2] \in master[t[1]]

C3_Witness ==
  /\ Len(frames) = 2
  /\ frames[1].req.op = "PutFile"
  /\ frames[1].pc = "done"
  /\ frames[1].res.err = Nil

\* C4: with accurate ownership, a client's GetFile or PutFile crosses at most
\* one hop between nodes, and the driver that serves it is the one of the
\* master of the path's shard.
C4_AtMostOneHop ==
  (Accurate /\ Len(frames) >= 1 /\ frames[1].req.op \in {"GetFile", "PutFile"}) =>
    /\ Len(frames) <= 2
    /\ \A j \in 1..Len(log) :
         log[j].kind \in {"driver.GetFile", "driver.PutFile"} =>
           /\ log[j].depth <= 2
           /\ log[j].shard = GetShard(frames[1].req.path)
           /\ log[j].shard \in master[log[j].node]

C4_Witness ==
  /\ Len(frames) = 2
  /\ frames[1].req.op = "GetFile"
  /\ frames[2].pc = "done"
  /\ \E j \in Calls(2, {"driver.GetFile"}) : log[j].err = Nil

\* C5: when the sharder cannot map the path to a shard, GetFile and PutFile
\* return the sharder's error, having called the sharder and nothing else.
C5_RoutingErrorFirst ==
  \A d \in 1..Len(frames) :
    (Routed(d) /\ GetShard(frames[d].req.path) = NoShard) =>
      /\ frames[d].pc = "done"
      /\ frames[d].res = Result(RoutingError, NoData)
      /\ \A j \in 1..Len(log) : log[j].depth = d => log[j].kind = "GetShard"
      /\ Cardinality(Calls(d, {"GetShard"})) = 1
      /\ Len(frames) = d

C5_Witness ==
  /\ Len(frames) = 1
  /\ frames[1].req = Request("PutFile", 0, 1)
  /\ frames[1].pc = "done"
  /\ frames[1].res.err = RoutingError

\* C6: in GetFile and PutFile, when GetAPIClient fails, the handler returns
\* that error (an unavailable error); it asked GetAPIClient once, made no
\* remote call and no call of its driver.
C6_NoClientNoRetry ==
  \A d \in 1..Len(frames) :
    Routed(d) =>
      \A g \in Calls(d, {"GetAPIClient"}) :
        log[g].err # Nil =>
          /\ frames[d].pc = "done"
          /\ frames[d].res = Result(log[g].err, NoData)
          /\ log[g].err = Unavailable
          /\ Cardinality(Calls(d, {"GetAPIClient"})) = 1
          /\ Calls(d, {"apiClient.GetFile", "apiClient.PutFile"}) = {}
          /\ Calls(d, StorageCalls) = {}
          /\ Len(frames) = d

C6_Witness ==
  /\ Len(frames) = 1
  /\ frames[1].req.op = "GetFile"
  /\ frames[1].pc = "done"
  /\ frames[1].res.err = Unavailable
  /\ \E g \in Calls(1, {"GetAPIClient"}) : log[g].err # Nil

\* The remote call of frame d failed in the transport or ran into the deadline.
CallFailed(d) ==
  /\ Routed(d)
  /\ frames[d].pc = "done"
  /\ Calls(d, {"apiClient.GetFile", "apiClient.PutFile"}) # {}
  /\ frames[d].call = Result(Unavailable, NoData)

\* C7 as stated: when the remote call fails or times out, the handler returns
\* the unavailable error, the call is not made again, and no driver of the
\* cluster has stored the file.
C7_NoMutationAnywhere ==
  \A d \in 1..Len(frames) :
    CallFailed(d) =>
      /\ frames[d].res = Result(Unavailable, NoData)
      /\ Cardinality(Calls(d, {"apiClient.GetFile", "apiClient.PutFile"})) = 1
      /\ \A j \in 1..Len(log) : log[j].kind = "driver.PutFile" => log[j].err # Nil

\* C7, amended: when the remote call fails or times out, the handler returns
\* the unavailable error and not an empty response, the call is not made
\* again, and the forwarding node calls no driver operation; when the call
\* failed without reaching the called node, no driver of the cluster is
\* called at all.  (After a timeout the called node may still store the file.)
C7_FailedCallSurfaced ==
  \A d \in 1..Len(frames) :
    CallFailed(d) =>
      /\ frames[d].res = Result(Unavailable, NoData)
      /\ Cardinality(Calls(d, {"apiClient.GetFile", "apiClient.PutFile"})) = 1
      /\ Calls(d, StorageCalls) = {}
      /\ \A j \in Calls(d, {"apiClient.GetFile", "apiClient.PutFile"}) :
           log[j].err # Nil =>
             \A k \in 1..Len(log) : log[k].depth >= d => log[k].kind \notin StorageCalls

C7_Witness ==
  /\ Len(frames) = 2
  /\ frames[1].req.op = "PutFile"
  /\ CallFailed(1)
  /\ frames[2].pc = "done"
  /\ \E j \in Calls(2, {"driver.PutFile"}) : log[j].err = Nil

\* The driver.InitRepository calls of frame d, and whether call j of the log
\* was made after the slave shards were asked for.
InitCalls(d) == Calls(d, {"driver.InitRepository"})
SlavePhase(d, j) == \E k \in Calls(d, {"IsLocalSlaveShard"}) : k < j
\* The master set of frame d: the shards IsLocalMasterShard answered true for.
MasterSet(d) == {log[k].shard : k \in {c \in Calls(d, {"IsLocalMasterShard"}) : log[c].ok}}

\* C8: within one InitRepository call, every driver.InitRepository call for a
\* slave shard comes after a driver.InitRepository call for each shard of the
\* master set.
C8_MastersBeforeSlaves ==
  \A d \in 1..Len(frames) :
    frames[d].req.op = "InitRepository" =>
      \A j \in InitCalls(d) :
        SlavePhase(d, j) =>
          \A s \in MasterSet(d) :
            \E k \in InitCalls(d) : k < j /\ log[k].shard = s /\ ~SlavePhase(d, k)

C8_Witness ==
  /\ Len(frames) = 1
  /\ frames[1].req.op = "InitRepository"
  /\ Cardinality(MasterSet(1)) >= 2
  /\ \E j \in InitCalls(1) : SlavePhase(1, j)

\* C9: once a driver.InitRepository call of an InitRepository request has
\* failed, the request makes no further call and returns that error.
C9_FailFast ==
  \A d \in 1..Len(frames) :
    frames[d].req.op = "InitRepository" =>
      \A j \in InitCalls(d) :
        log[j].err # Nil =>
          /\ j = Len(log)
          /\ frames[d].pc = "done"
          /\ frames[d].res = Result(log[j].err, NoData)

C9_Witness ==
  /\ Len(frames) = 1
  /\ frames[1].pc = "done"
  /\ frames[1].todo # {}
  /\ \E j \in InitCalls(1) : log[j].err # Nil /\ ~SlavePhase(1, j)
  /\ slave[frames[1].node] # {}

\* C10: when InitRepository fails because driver.InitRepository failed on
\* shard s, the error returned names s.
C10_ErrorNamesShard ==
  \A d \in 1..Len(frames) :
    (frames[d].req.op = "InitRepository" /\ frames[d].pc = "done") =>
      \A j \in InitCalls(d) :
        log[j].err # Nil => frames[d].res.err.shard = log[j].shard

\* The driver.InitRepository calls of frame d, in the order they were made:
\* the shard and the outcome of each.
InitTrace(d) ==
  LET sel == SelectSeq(log, LAMBDA e : e.depth = d /\ e.kind = "driver.InitRepository")
  IN [k \in 1..Len(sel) |-> <<sel[k].shard, sel[k].err>>]
RoleQueries == {"IsLocalMasterShard", "IsLocalSlaveShard"}
\* The two calls met the same collaborators: a role query got the same answer
\* in both, and driver.InitRepository the same outcome on the same shard.
SameOutcomes ==
  /\ \A j \in Calls(1, RoleQueries), k \in Calls(2, RoleQueries) :
       (log[j].kind = log[k].kind /\ log[j].shard = log[k].shard) =>
         (log[j].ok = log[k].ok /\ log[j].err = log[k].err)
  /\ \A j \in InitCalls(1), k \in InitCalls(2) :
       log[j].shard = log[k].shard => log[j].err = log[k].err
\* Two executions of InitRepository on one node have returned.
TwoExecutions ==
  /\ Len(frames) = 2
  /\ frames[1].node = frames[2].node
  /\ frames[1].pc = "done"
  /\ frames[2].pc = "done"

\* C11: two executions of InitRepository on the same node, under the same
\* ownership snapshot and with driver.InitRepository failing on the same
\* shards, attempt the same shards in the same order and report the same
\* error.
C11_SameOrderEveryExecution ==
  (TwoExecutions /\ SameOutcomes) =>
    /\ InitTrace(1) = InitTrace(2)
    /\ frames[1].res = frames[2].res

\* An InitRepository call that has returned.
InitDone(d) == frames[d].req.op = "InitRepository" /\ frames[d].pc = "done"
\* The driver.InitRepository calls of frame d on shard s.
InitCallsOn(d, s) == {j \in InitCalls(d) : log[j].shard = s}

\* C12: when the master and slave sets of the node are disjoint, a successful
\* InitRepository has called driver.InitRepository exactly once for every
\* shard the node is master or slave of, for no other shard, and for every
\* master shard before any slave shard.
C12_EachOwnedShardOnce ==
  \A d \in 1..Len(frames) :
    LET n == frames[d].node IN
    (InitDone(d) /\ frames[d].res.err = Nil /\ master[n] \cap slave[n] = {}) =>
      /\ \A s \in Shards :
           Cardinality(InitCallsOn(d, s)) =
             IF s \in master[n] \cup slave[n] THEN 1 ELSE 0
      /\ \A j \in InitCalls(d), k \in InitCalls(d) :
           (log[j].shard \in master[n] /\ log[k].shard \in slave[n]) => j < k

C12_Witness ==
  /\ Len(frames) = 1
  /\ InitDone(1)
  /\ frames[1].res.err = Nil
  /\ Cardinality(master[frames[1].node]) >= 2
  /\ slave[frames[1].node] # {}
  /\ Cardinality(InitCalls(1)) = Cardinality(master[frames[1].node] \cup slave[frames[1].node])

\* Every role query and every driver.InitRepository call that InitRepository
\* has to make was made by frame d and succeeded.
AllSucceeded(d) ==
  LET n == frames[d].node IN
  /\ \A j \in Calls(d, RoleQueries \cup {"driver.InitRepository"}) : log[j].err = Nil
  /\ \A s \in Shards, q \in RoleQueries :
       \E j \in Calls(d, {q}) : log[j].shard = s
  /\ \A s \in master[n] \cup slave[n] : InitCallsOn(d, s) # {}

\* C13: an InitRepository call that has returned reports success exactly when
\* every role query and every driver.InitRepository call on the node's master
\* and slave shards was made and succeeded; it never reports success after a
\* call failed.
C13_SuccessIffAllSucceeded ==
  \A d \in 1..Len(frames) :
    /\ InitDone(d) => ((frames[d].res.err = Nil) <=> AllSucceeded(d))
    /\ (frames[d].req.op = "InitRepository" /\ frames[d].res.err = Nil /\
        \E j \in Calls(d, RoleQueries \cup {"driver.InitRepository"}) : log[j].err # Nil)
         => frames[d].pc # "done"

C13_Witness ==
  /\ Len(frames) = 1
  /\ InitDone(1)
  /\ frames[1].res.err = RouterError
  /\ \E j \in Calls(1, {"IsLocalSlaveShard"}) : log[j].err # Nil /\ log[j].shard > 0
  /\ InitCalls(1) # {}

\* The shards driver.InitRepository has initialised on node n.
Applied(n) ==
  {log[j].shard : j \in {k \in 1..Len(log) : /\ log[k].kind = "driver.InitRepository"
                                             /\ log[k].node = n
                                             /\ log[k].err = Nil}}

\* C14: the storage of a node holds the repository on exactly the shards on
\* which a driver.InitRepository call succeeded, also after InitRepository
\* has failed part-way: the shards it initialised stay initialised, the
\* shards it did not reach are untouched, and it makes no other storage call.
C14_NoRollback ==
  /\ \A n \in Nodes : inited[n] = Applied(n)
  /\ \A d \in 1..Len(frames) :
       frames[d].req.op = "InitRepository" =>
         /\ Calls(d, StorageCalls) = InitCalls(d)
         /\ \A s \in Shards : Cardinality(InitCallsOn(d, s)) <= 1

C14_Witness ==
  /\ Len(frames) = 1
  /\ InitDone(1)
  /\ frames[1].res.err \in StorageErrors(NoShard)
  /\ inited[frames[1].node] # {}
  /\ frames[1].todo # {}
  /\ frames[1].S = {}
  /\ slave[frames[1].node] # {}

\* InitRepository was called a second time on the same node, and no role
\* query and no driver.InitRepository call of the second call failed.
CleanSecondCall ==
  /\ Len(frames) = 2
  /\ frames[1].node = frames[2].node
  /\ InitDone(2)
  /\ \A j \in Calls(2, RoleQueries \cup {"driver.InitRepository"}) : log[j].err = Nil

\* C15: a second InitRepository call on a node, none of whose collaborator
\* calls fails, succeeds and leaves the repository on exactly the node's
\* master and slave shards: after a successful first call the storage is what
\* the first call left, after a first call that failed part-way the remaining
\* shards are initialised.
C15_RetryCompletes ==
  CleanSecondCall =>
    LET n == frames[2].node IN
    /\ frames[2].res.err = Nil
    /\ inited[n] = master[n] \cup slave[n]
    /\ frames[1].res.err = Nil => inited[n] = frames[1].M \cup frames[1].S

C15_Witness ==
  /\ CleanSecondCall
  /\ frames[1].res.err \in StorageErrors(NoShard)
  /\ frames[1].todo # {}
  /\ frames[1].M \ frames[1].todo # {}
  /\ frames[2].res.err = Nil
  /\ slave[frames[2].node] # {}

\* C16 (as stated): a slave copy of a shard holds the repository only if the
\* master copy of that shard, on the node that is its master, holds it.
C16_SlaveOnlyAfterMaster ==
  \A n \in Nodes : \A s \in inited[n] \cap slave[n] :
    \E m \in Nodes : s \in master[m] /\ s \in inited[m]

\* C16 (amended): a node holds the repository on one of its slave shards only
\* if it holds it on every one of its own master shards.
C16_SlaveAfterOwnMasters ==
  \A n \in Nodes :
    inited[n] \cap slave[n] # {} => master[n] \subseteq inited[n]

C16_Witness ==
  \E n \in Nodes : \E s \in inited[n] \cap slave[n] :
    /\ master[n] # {}
    /\ \E m \in Nodes \ {n} : s \in master[m] /\ s \notin inited[m] /\ inited[m] # {}

\* The driver.GetFile calls of frame d that returned a reader.
Opened(d) == {j \in Calls(d, {"driver.GetFile"}) : log[j].err = Nil}
\* A GetFile handler, served from the node's own storage, that has returned.
LocalReadDone(d) ==
  /\ frames[d].req.op = "GetFile"
  /\ frames[d].pc = "done"
  /\ Opened(d) # {}
\* The bytes of the file that frame d's node stores for the path asked for.
StoredBytes(d) ==
  {Content(v) : v \in Stored(frames[d].node, GetShard(frames[d].req.path),
                             frames[d].req.path)}
\* The sequence a is the beginning of the sequence b.
IsPrefix(a, b) == Len(a) <= Len(b) /\ a = SubSeq(b, 1, Len(a))

\* C17: the reader that driver.GetFile returned to a GetFile handler is
\* closed exactly once, after it was opened and not before the copy is over,
\* when the handler returns: after a complete copy, after a failed read and
\* after a failed send alike.
C17_ClosedExactlyOnce ==
  \A d \in 1..Len(frames) :
    frames[d].req.op = "GetFile" =>
      /\ frames[d].pc = "done" =>
           Cardinality(Calls(d, {"Close"})) = Cardinality(Opened(d))
      /\ frames[d].pc # "done" => Calls(d, {"Close"}) = {}
      /\ Cardinality(Opened(d)) <= 1
      /\ \A c \in Calls(d, {"Close"}) :
           /\ \E o \in Opened(d) : o < c
           /\ \A j \in Calls(d, {"Send", "Read"}) : j < c

C17_Witness ==
  \E d \in 1..Len(frames) :
    /\ LocalReadDone(d)
    /\ frames[d].out # <<>>
    /\ \E j \in Calls(d, {"Send"}) : log[j].err # Nil
    /\ Cardinality(Calls(d, {"Close"})) = 1

\* C18: a local GetFile that succeeded has delivered exactly the bytes of the
\* stored file, in order, whatever their number and however they were cut
\* into chunks.
C18_LocalBytesExact ==
  \A d \in 1..Len(frames) :
    (LocalReadDone(d) /\ frames[d].res.err = Nil) =>
      /\ StoredBytes(d) # {}
      /\ \A b \in StoredBytes(d) : Flatten(frames[d].out) = b

C18_Witness ==
  /\ Len(frames) = 1
  /\ LocalReadDone(1)
  /\ frames[1].res.err = Nil
  /\ Len(frames[1].out) >= 2
  /\ Len(Flatten(frames[1].out)) = MaxLen
  /\ Len(frames[1].out[1]) < ChunkSize

\* The GetFile handler d forwarded its request, to the handler d + 1.
Forwarded(d) ==
  /\ frames[d].req.op = "GetFile"
  /\ d < Len(frames)
  /\ \E j \in Calls(d, {"apiClient.GetFile"}) : log[j].err = Nil

\* C19: a forwarded GetFile that succeeded has delivered exactly the bytes the
\* called node delivered, which are the bytes of the file that node stores
\* for the path.
C19_ForwardedBytesExact ==
  \A d \in 1..Len(frames) :
    (Forwarded(d) /\ frames[d].pc = "done" /\ frames[d].res.err = Nil) =>
      /\ Flatten(frames[d].out) = Flatten(frames[d + 1].out)
      /\ LocalReadDone(d + 1)
      /\ StoredBytes(d + 1) = {Flatten(frames[d].out)}

C19_Witness ==
  /\ Len(frames) = 2
  /\ Forwarded(1)
  /\ frames[1].pc = "done"
  /\ frames[1].res.err = Nil
  /\ Len(frames[1].out) >= 2
  /\ Len(Flatten(frames[1].out)) = MaxLen

\* The producer of GetFile handler d failed: a read of the local reader, the
\* called handler, or the transport of the remote stream.
ProducerFailed(d) ==
  \/ \E j \in Calls(d, {"Read"}) : log[j].err # Nil
  \/ /\ Forwarded(d)
     /\ frames[d + 1].pc = "done"
     /\ frames[d + 1].res.err # Nil
     /\ frames[d].pc = "done"
  \/ /\ Forwarded(d)
     /\ frames[d].call.err # Nil

\* C20: when the producer of a GetFile fails, GetFile returns an error; at
\* every moment the bytes delivered are a beginning of the producer's bytes,
\* and what was delivered is never taken back.
C20_ProducerFailureSurfaced ==
  /\ [](\A d \in 1..Len(frames) :
          frames[d].req.op = "GetFile" =>
            /\ ProducerFailed(d) => (frames[d].pc = "done" /\ frames[d].res.err # Nil)
            /\ Opened(d) # {} =>
                 \A b \in StoredBytes(d) : IsPrefix(Flatten(frames[d].out), b)
            /\ Forwarded(d) => IsPrefix(frames[d].out, frames[d + 1].out))
  /\ [][\A d \in 1..Len(frames) : IsPrefix(frames[d].out, frames'[d].out)]_vars

C20_Witness ==
  /\ Len(frames) = 2
  /\ Forwarded(1)
  /\ \E j \in Calls(2, {"Read"}) : log[j].err # Nil
  /\ frames[2].out # <<>>
  /\ frames[1].out = frames[2].out
  /\ frames[1].pc = "done"
  /\ frames[1].res = Result(StreamError, NoData)
  /\ frames[1].call = frames[2].res

\* The payload bytes the handler d holds at once: a PutFile handler holds
\* putFileRequest.Value from its call to its return (lines 87-106); a GetFile
\* handler holds the chunk it is copying, the longest of which is counted.
RECURSIVE Longest(_)
Longest(chunks) ==
  IF chunks = <<>> THEN 0
  ELSE LET l == Longest(Tail(chunks)) IN
       IF Len(Head(chunks)) > l THEN Len(Head(chunks)) ELSE l
Held(d) ==
  IF frames[d].req.op = "PutFile"
    THEN IF frames[d].pc = "done" THEN 0 ELSE Len(Payload(frames[d].req.value))
    ELSE IF frames[d].req.op = "GetFile" THEN Longest(frames[d].out) ELSE 0

\* C21: a GetFile or PutFile handler never holds more than one chunk of
\* payload: PutFile does not hold the whole payload as one unit.
C21_OneChunkInFlight ==
  \A d \in 1..Len(frames) : Held(d) <= ChunkSize

\* The node that is master of the shard.
OwnerOf(shard) == {n \in Nodes : shard \in master[n]}
\* The diff calls made on the storage of node n for the shard.
DiffCalls(kind, n, shard) ==
  {j \in 1..Len(log) : log[j].kind = kind /\ log[j].node = n /\ log[j].shard = shard}
\* drive.Driver's diff of a shard, as extract_diff produces it on node n: one
\* byte for each file the node stores on the shard.
Diff(n, shard) ==
  [k \in 1..Cardinality({t \in files : t[1] = n /\ t[2] = shard}) |-> k]

\* C22: when PushDiff has returned success, the diff was applied exactly once
\* to the storage of the node that is master of the shard, and to no other.
C22_PushDiffApplied ==
  \A d \in 1..Len(frames) :
    (frames[d].req.op = "PushDiff" /\ frames[d].pc = "done" /\ frames[d].res.err = Nil) =>
      \A n \in Nodes :
        Cardinality(DiffCalls("driver.PushDiff", n, frames[d].req.shard)) =
          IF n \in OwnerOf(frames[d].req.shard) THEN 1 ELSE 0

\* C23: when PullDiff has returned success, the bytes it delivered are the
\* bytes of the diff of the shard on the node that is its master.
C23_PullDiffDelivers ==
  \A d \in 1..Len(frames) :
    (frames[d].req.op = "PullDiff" /\ frames[d].pc = "done" /\ frames[d].res.err = Nil) =>
      \A n \in OwnerOf(frames[d].req.shard) :
        Flatten(frames[d].out) = Diff(n, frames[d].req.shard)

\* What the router of the node of frame d last learnt about the master of
\* the shard of d's path, before d began: the RouterUpdate events.
LastUpdate(d) ==
  LET ups == {u \in 1..Len(log) :
                /\ log[u].kind = "RouterUpdate"
                /\ log[u].node = frames[d].node
                /\ log[u].shard = GetShard(frames[d].req.path)
                /\ \A g \in Calls(d, {"GetShard"}) : u < g}
  IN {u \in ups : \A w \in ups : w <= u}

\* C24: a GetFile or PutFile that begins after the node's router learnt that
\* another node is the master of the shard asks the router once, is answered
\* false, makes no driver call and is forwarded to that node; one that
\* begins after the router learnt that the node itself is the master is
\* served locally; whatever the node's earlier requests were answered.
C24_ReResolvedPerRequest ==
  \A d \in 1..Len(frames) :
    Routed(d) =>
      \A u \in LastUpdate(d) :
        /\ Cardinality(Calls(d, {"IsLocalMasterShard"})) = 1
        /\ \A j \in Calls(d, {"IsLocalMasterShard"}) :
             log[j].err = Nil => log[j].ok = (log[u].to = frames[d].node)
        /\ log[u].to # frames[d].node =>
             /\ Calls(d, StorageCalls) = {}
             /\ \A c \in Calls(d, {ClientOp(d)}) : log[c].to = log[u].to
        /\ log[u].to = frames[d].node => Calls(d, RemoteCalls) = {}

\* The node wrote a file locally, lost the mastership of the shard, and has
\* forwarded the next PutFile for the shard to the new master, which wrote it.
C24_Witness ==
  /\ Len(frames) = 2
  /\ frames[1].req.op = "PutFile"
  /\ \E j \in Calls(0, {"driver.PutFile"}) :
       /\ log[j].err = Nil
       /\ log[j].node = frames[1].node
       /\ log[j].shard = GetShard(frames[1].req.path)
  /\ \E u \in LastUpdate(1) : log[u].to # frames[1].node
  /\ frames[1].pc = "done"
  /\ frames[1].res.err = Nil
  /\ \E j \in Calls(2, {"driver.PutFile"}) : log[j].err = Nil /\ log[j].node # frames[1].node

\* The routing decision of the request at depth d (0: the request that has
\* returned; 1: the request being served): what the router answered, whether
\* the node's driver was called, and the node the request was sent to.
Decision(d) ==
  [answer |-> {log[j].ok : j \in {k \in Calls(d, {"IsLocalMasterShard"}) : log[k].err = Nil}},
   local  |-> Calls(d, {"driver.GetFile", "driver.PutFile"}) # {},
   to     |-> {log[j].to : j \in Calls(d, {"apiClient.GetFile", "apiClient.PutFile"})}]

\* Two requests of one node for the same shard, the router having answered
\* both, and no router having learnt of a change of master.
SameSnapshot ==
  /\ nreq = 2
  /\ Routed(1)
  /\ \A j \in 1..Len(log) : log[j].kind # "RouterUpdate"
  /\ Decision(0).answer # {}
  /\ Decision(1).answer # {}
  /\ \A j \in Calls(0, {"GetShard"}) : log[j].shard = GetShard(frames[1].req.path)

\* C25: two requests (GetFile or PutFile, for the same path or not) a node
\* serves for the same shard under one snapshot of ownership get the same
\* routing decision: the same answer of the router, both served by the
\* node's driver or neither, and, when both were sent on, the same node.
C25_SameShardSameDecision ==
  SameSnapshot =>
    /\ Decision(0).answer = Decision(1).answer
    /\ Decision(0).local = Decision(1).local
    /\ (Decision(0).to # {} /\ Decision(1).to # {}) => Decision(0).to = Decision(1).to

\* A GetFile and a PutFile for two paths of one shard, both sent on to the
\* same node.
C25_Witness ==
  /\ SameSnapshot
  /\ frames[1].req.op = "PutFile"
  /\ \E j \in Calls(0, {"GetShard"}) :
       log[j].req.op = "GetFile" /\ log[j].req.path # frames[1].req.path
  /\ Decision(1).to # {}
  /\ Decision(0).to = Decision(1).to
  /\ ~Decision(1).local

\* The errors the collaborators returned to the handler at depth d: the
\* sharder, the router, the driver, the reader and its Close, the stream to
\* the caller, the remote call and the node called.
CollaboratorErrors(d) ==
  {log[j].err : j \in {k \in 1..Len(log) : log[k].depth = d /\ log[k].err # Nil}}
    \cup (IF frames[d].call.err # Nil THEN {frames[d].call.err} ELSE {})

\* C26: an InitRepository, GetFile or PutFile to which a collaborator returned
\* an error returns an error, one of those it was given, and no response.
C26_ErrorsSurface ==
  \A d \in 1..Len(frames) :
    (frames[d].pc = "done" /\ CollaboratorErrors(d) # {}) =>
      /\ frames[d].res.err \in CollaboratorErrors(d)
      /\ frames[d].res.data = NoData

\* A GetFile whose only failure was that of Close, after a complete copy.
C26_Witness ==
  \E d \in 1..Len(frames) :
    /\ frames[d].pc = "done"
    /\ frames[d].req.op = "GetFile"
    /\ CollaboratorErrors(d) = {CloseError}
    /\ frames[d].res.err = CloseError
    /\ \E j \in Calls(d, {"Send"}) : log[j].err = Nil

\* The role queries of frame d the router failed.
FailedQueries(d, kind) == {j \in Calls(d, {kind}) : log[j].err # Nil}

\* C30: an InitRepository whose master query failed has returned that error
\* having made no driver.InitRepository call and no slave query; one whose
\* slave query failed has returned that error having initialized every shard
\* of its master set before the query, and no shard after it.
C30_QueryFailurePoints ==
  \A d \in 1..Len(frames) :
    frames[d].req.op = "InitRepository" =>
      /\ \A j \in FailedQueries(d, "IsLocalMasterShard") :
           /\ frames[d].pc = "done"
           /\ frames[d].res = Result(log[j].err, NoData)
           /\ InitCalls(d) = {}
           /\ Calls(d, {"IsLocalSlaveShard"}) = {}
      /\ \A j \in FailedQueries(d, "IsLocalSlaveShard") :
           /\ frames[d].pc = "done"
           /\ frames[d].res = Result(log[j].err, NoData)
           /\ \A s \in MasterSet(d) :
                \E k \in InitCallsOn(d, s) : log[k].err = Nil /\ k < j
           /\ \A k \in InitCalls(d) : ~SlavePhase(d, k)
           /\ \A k \in Calls(d, {"IsLocalSlaveShard"}) : k <= j

\* The slave query failed after a slave shard was found, the master shards
\* having been initialized.
C30_Witness ==
  \E d \in 1..Len(frames) :
    /\ InitDone(d)
    /\ MasterSet(d) # {}
    /\ \E j \in FailedQueries(d, "IsLocalSlaveShard") :
         \E k \in Calls(d, {"IsLocalSlaveShard"}) : k < j /\ log[k].ok
    /\ frames[d].res.err = RouterError

\* C29: a successful InitRepository has initialized every shard its node has
\* held throughout the call, as master or as slave, also when the node was
\* promoted from slave to master, or the reverse, during the call.
C29_OwnedShardsInitialized ==
  \A d \in 1..Len(frames) :
    (InitDone(d) /\ frames[d].res.err = Nil) =>
      \A s \in master[frames[d].node] \cup slave[frames[d].node] :
        \E k \in InitCallsOn(d, s) : log[k].err = Nil

\* C28: a GetFile or PutFile is never handed back to a node that has already
\* forwarded it (no forwarding cycle), also when the routers learn of a
\* change of master at different times or while the request is in flight.
C28_NoForwardingCycle ==
  \A d \in 1..Len(frames), e \in 1..Len(frames) :
    d < e => frames[d].node # frames[e].node

\* C27: once a request the client cancelled has returned, nothing it opened
\* is left: no handler of the request holds an open read stream, and every
\* remote call made for it has ended or had its context cancelled.
C27_CancelReleases ==
  (CtxCancelled(1) /\ frames[1].pc = "done") =>
    \A d \in 1..Len(frames) :
      /\ frames[d].pc # "copy"
      /\ frames[d].pc = "done" \/ CtxCancelled(d)

\* The errors of the copy of frame d (a failed read, a failed send) and those
\* of the Close of its reader.
CopyErrors(d) ==
  {log[j].err : j \in {k \in Calls(d, {"Read", "Send"}) : log[k].err # Nil}}
CloseErrors(d) ==
  {log[j].err : j \in {k \in Calls(d, {"Close"}) : log[k].err # Nil}}

\* C31: a local GetFile whose copy failed returns the error of the copy,
\* whether Close failed or not; one whose copy succeeded returns the error of
\* Close when Close failed, and success when it did not.
C31_CloseErrorOnlyAfterGoodCopy ==
  \A d \in 1..Len(frames) :
    LocalReadDone(d) =>
      /\ CopyErrors(d) # {} => frames[d].res.err \in CopyErrors(d)
      /\ (CopyErrors(d) = {} /\ CloseErrors(d) # {}) =>
           frames[d].res.err \in CloseErrors(d)
      /\ (CopyErrors(d) = {} /\ CloseErrors(d) = {}) => frames[d].res.err = Nil

\* The copy failed after a chunk was sent, Close failed too, and the error
\* returned is that of the copy.
C31_Witness ==
  \E d \in 1..Len(frames) :
    /\ LocalReadDone(d)
    /\ CopyErrors(d) = {StreamError}
    /\ CloseErrors(d) = {CloseError}
    /\ frames[d].res.err = StreamError
    /\ frames[d].out # <<>>

\* The queries of one kind made by frame d, and the set getShards returned
\* to it for that kind (no set: the empty one the frame began with).
Queries(d, kind) == Calls(d, {kind})
Returned(d, kind) == IF kind = "IsLocalMasterShard" THEN frames[d].M ELSE frames[d].S
\* getShards has returned to frame d for the kind.
QueryOver(d, kind) ==
  \/ frames[d].pc = "done"
  \/ kind = "IsLocalMasterShard" /\ frames[d].pc # "start"
  \/ kind = "IsLocalSlaveShard" /\ frames[d].pc = "slaves"

\* C33: getShards asks isShardFunc for the indices 0, 1, 2, ... in that
\* order, once each, and for nothing after a failed query; without a failure
\* it asks for every index below NumShards and returns the set of those
\* answered true; with a failure it returns no set.
C33_GetShardsExact ==
  \A d \in 1..Len(frames) : \A kind \in RoleQueries :
    frames[d].req.op = "InitRepository" =>
      LET Q == Queries(d, kind) IN
      /\ \A k \in Q : log[k].shard = Cardinality({x \in Q : x < k})
      /\ \A k \in Q : log[k].err # Nil => \A x \in Q : x <= k
      /\ (QueryOver(d, kind) /\ Q # {}) =>
           IF FailedQueries(d, kind) = {}
             THEN /\ {log[k].shard : k \in Q} = Shards
                  /\ Returned(d, kind) = {log[k].shard : k \in {x \in Q : log[x].ok}}
             ELSE Returned(d, kind) = {}

\* The master query answered true for some indices and false for others, and
\* the slave query failed after its first index.
C33_Witness ==
  \E d \in 1..Len(frames) :
    /\ InitDone(d)
    /\ frames[d].M # {}
    /\ frames[d].M # Shards
    /\ \E k \in FailedQueries(d, "IsLocalSlaveShard") :
         log[k].shard > 0 /\ log[k].shard < NumShards - 1

\* The sequence s holds the character c.
Has(s, c) == \E i \in 1..Len(s) : s[i] = c
\* The argument is malformed: nothing precedes its first '@', or it has an
\* '@' and nothing stands between the first '@' and the end or the next ':'.
Malformed(arg) ==
  \/ arg = <<>>
  \/ arg[1] = "@"
  \/ \E i \in 1..Len(arg) :
       /\ arg[i] = "@"
       /\ ~Has(SubSeq(arg, 1, i - 1), "@")
       /\ i = Len(arg) \/ arg[i + 1] = ":"
\* The file f is made of the three parts of the argument repo[@commit[:path]].
PartsOf(arg, f) ==
  IF ~Has(arg, "@")
    THEN f = File(arg, <<>>, <<>>)
    ELSE /\ ~Has(f.repo, "@")
         /\ ~Has(f.id, ":")
         /\ \/ f.path = <<>> /\ arg = f.repo \o <<"@">> \o f.id
            \/ arg = f.repo \o <<"@">> \o f.id \o <<":">> \o f.path

\* C34: ParseFile fails exactly on the malformed arguments; on the others it
\* returns the file made of the three parts of the argument.  ParseFiles
\* returns the error of its first malformed argument, naming it, with no
\* results, and without one the files of its arguments in order.
C34_ParseFileForm ==
  \A d \in 1..Len(frames) :
    (frames[d].req.op = "ParseFiles" /\ frames[d].pc = "done") =>
      LET args == frames[d].req.args
          bad == {k \in 1..Len(args) : Malformed(args[k])}
      IN
      IF bad = {}
        THEN /\ frames[d].res.err = Nil
             /\ Len(frames[d].res.data) = Len(args)
             /\ \A k \in 1..Len(args) : PartsOf(args[k], frames[d].res.data[k])
        ELSE /\ frames[d].res.data = <<>>
             /\ \E k \in bad :
                  /\ \A j \in bad : k <= j
                  /\ frames[d].res.err.arg = args[k]
                  /\ frames[d].res.err.kind =
                       IF args[k] = <<>> \/ args[k][1] = "@"
                         THEN "repo cannot be empty"
                         ELSE "commit cannot be empty"

\* An argument with its three parts, the path holding a ':'.
C34_Witness ==
  /\ Len(frames) = 1
  /\ frames[1].req.op = "ParseFiles"
  /\ frames[1].pc = "done"
  /\ frames[1].res.data = <<File(<<"r">>, <<"r">>, <<":">>)>>

\* The words joined by single spaces.
RECURSIVE Join(_)
Join(words) ==
  IF Len(words) = 1 THEN words[1] ELSE words[1] \o <<" ">> \o Join(Tail(words))

\* The alias is a chain for the invocation: the names of its commands, none
\* holding a space, joined by spaces make the invocation, and a name holds a
\* bracket only if the invocation does; the last has the Run of cmd and its
\* usage arguments after its name; each of the others has no Run, its name
\* alone as Use, and the next command as its only child.
IsChain(alias, cmd, invocation) ==
  LET n == Len(alias)
      names == [j \in 1..n |-> Name(alias[j].Use)]
  IN
  /\ n >= 1
  /\ \A j \in 1..n : ~Has(names[j], " ")
  /\ Join(names) = invocation
  /\ \A j \in 1..n : Has(names[j], "[") => Has(invocation, "[")
  /\ alias[n].Run = cmd.Run
  /\ alias[n].Use = IF cmd.Use = <<>> THEN names[n] ELSE names[n] \o <<" ">> \o cmd.Use
  /\ alias[n].children = {}
  /\ \A j \in 1..(n - 1) :
       /\ ~alias[j].Run
       /\ alias[j].Use = names[j]
       /\ alias[j].children = {j + 1}

\* A CreateAliases call that has returned.
AliasesDone(d) == frames[d].req.op = "CreateAliases" /\ frames[d].pc = "done"

====
